---- MODULE Spec2Model ----
(***************************************************************************)
(* Token-based BPMN workflow execution: the ReactFlow-to-BPMN converter,   *)
(* the process definition lookups, the expression evaluator and the        *)
(* execution engine (execute(), the per-token step, splits, joins and the  *)
(* ServiceTask completion poll).                                           *)
(*                                                                         *)
(* Python values are represented by strings: "True" and "False" stand for  *)
(* the booleans, "" for the empty string, "none" for None / an absent key. *)
(* Dicts that keep insertion order (elements, sequence_flows, tokens) are  *)
(* sequences; a token's id is its index in the instance's token sequence.  *)
(***************************************************************************)
EXTENDS Integers, Sequences, FiniteSets, TLC

VARIABLES
    workflow_data,      \* the graph handed to convert_workflow_to_bpmn
    process,            \* BPMNExecutionEngine.process (the converted definition)
    variables,          \* instance.variables
    tokens,             \* instance.tokens, in insertion order
    element_states,     \* instance.element_states
    terminal_mappings,  \* instance.terminal_mappings
    terminals,          \* the terminal service: terminal id -> inputs sent, status queries
    pc,                 \* position of execute()
    active_tokens,      \* the snapshot taken by the while loop (token ids)
    idx,                \* position of the for loop in the snapshot
    terminal_id,        \* _wait_for_terminal_completion: the terminal polled
    elapsed,            \* _wait_for_terminal_completion: elapsed
    last,               \* the last finished token step: token, element, handler, exception
    execution_states,   \* workflow_execution_service._execution_states
    call                \* the last call made to the execution-state registry

vars == <<workflow_data, process, variables, tokens, element_states,
          terminal_mappings, terminals, pc, active_tokens, idx, terminal_id,
          elapsed, last, execution_states, call>>

\* the state of the engine and the state of the execution-state registry
engine == <<workflow_data, process, variables, tokens, element_states,
            terminal_mappings, terminals, pc, active_tokens, idx, terminal_id,
            elapsed, last>>

registry == <<execution_states, call>>

NONE == "none"

\* ------------------------------------------------------------------ bounds
MaxTokens == 6
MaxTerminals == 3

\* ------------------------------------------------------- program constants
DefaultTimeout == 600
CheckInterval == 2

ACTIVE == "active"
WAITING == "waiting"
COMPLETED == "completed"
FAILED == "failed"

DIVERGING == "Diverging"
CONVERGING == "Converging"
MIXED == "Mixed"

START_EVENT == "startEvent"
END_EVENT == "endEvent"
SERVICE_TASK == "serviceTask"
SCRIPT_TASK == "scriptTask"
USER_TASK == "userTask"
EXCLUSIVE_GATEWAY == "exclusiveGateway"
PARALLEL_GATEWAY == "parallelGateway"
INCLUSIVE_GATEWAY == "inclusiveGateway"

\* ------------------------------------------------------------ dict helpers
EmptyDict == [k \in {} |-> NONE]

DictSet(d, key, value) ==
    [k \in DOMAIN d \cup {key} |-> IF k = key THEN value ELSE d[k]]

\* dict.update(other) and {**d, **other}: the keys of other override
DictUpdate(d, other) ==
    [k \in DOMAIN d \cup DOMAIN other |-> IF k \in DOMAIN other THEN other[k] ELSE d[k]]

\* d[rec.id] = rec on an insertion-ordered dict of records keyed by id
PutById(seq, rec) ==
    IF \E i \in 1..Len(seq) : seq[i].id = rec.id
    THEN [i \in 1..Len(seq) |-> IF seq[i].id = rec.id THEN rec ELSE seq[i]]
    ELSE Append(seq, rec)

Truthy(value) == value \notin {"False", "", NONE}

\* -------------------------------------------------------- workflow inputs
\* A ReactFlow node / edge as the converter reads it; an absent config key is
\* NONE (an absent timeout is -1).
NoConfig ==
    [direction |-> NONE, defaultFlow |-> NONE, taskTemplate |-> NONE,
     timeout |-> -1, waitForCompletion |-> NONE, script |-> NONE]

Node(id, type, config) == [id |-> id, data |-> [type |-> type, config |-> config]]

Edge(id, source, target, cond) ==
    [id |-> id, source |-> source, target |-> target,
     data |-> [conditionExpression |-> cond]]

\* start -> waited service task (odd timeout) -> end
WfLinear ==
    [id |-> "linear",
     nodes |-> << Node("start", "startEvent", NoConfig),
                  Node("task", "agent_spawn",
                       [NoConfig EXCEPT !.taskTemplate = "{{z}}", !.timeout = 3]),
                  Node("end", "endEvent", NoConfig) >>,
     edges |-> << Edge("e1", "start", "task", NONE),
                  Edge("e2", "task", "end", NONE) >>]

\* start -> AND split -> two script tasks -> AND join -> end
WfForkJoin ==
    [id |-> "forkjoin",
     nodes |-> << Node("start", "startEvent", NoConfig),
                  Node("split", "parallelGateway", NoConfig),
                  Node("a", "scriptTask", [NoConfig EXCEPT !.script = "x"]),
                  Node("b", "scriptTask", [NoConfig EXCEPT !.script = "y"]),
                  Node("join", "parallelGateway",
                       [NoConfig EXCEPT !.direction = "Converging"]),
                  Node("end", "endEvent", NoConfig) >>,
     edges |-> << Edge("e1", "start", "split", NONE),
                  Edge("e2", "split", "a", NONE),
                  Edge("e3", "split", "b", NONE),
                  Edge("e4", "a", "join", NONE),
                  Edge("e5", "b", "join", NONE),
                  Edge("e6", "join", "end", NONE) >>]

\* start -> AND split -> waited service task | script task | fire-and-forget
\* service task -> converging inclusive gateway -> end
WfForkSvc ==
    [id |-> "forksvc",
     nodes |-> << Node("start", "startEvent", NoConfig),
                  Node("split", "and_split", NoConfig),
                  Node("svc", "serviceTask",
                       [NoConfig EXCEPT !.taskTemplate = "run", !.timeout = 4]),
                  Node("sc", "scriptTask", [NoConfig EXCEPT !.script = "z"]),
                  Node("ff", "handoff",
                       [NoConfig EXCEPT !.taskTemplate = "run",
                                        !.waitForCompletion = "False"]),
                  Node("join", "inclusiveGateway",
                       [NoConfig EXCEPT !.direction = "Converging"]),
                  Node("end", "endEvent", NoConfig) >>,
     edges |-> << Edge("e1", "start", "split", NONE),
                  Edge("e2", "split", "svc", NONE),
                  Edge("e3", "split", "sc", NONE),
                  Edge("e4", "split", "ff", NONE),
                  Edge("e5", "svc", "join", NONE),
                  Edge("e6", "sc", "join", NONE),
                  Edge("e7", "ff", "join", NONE),
                  Edge("e8", "join", "end", NONE) >>]

\* start -> XOR split with flows [x, unconditional, y, z] to four end events
WfXor(id, defaultFlow) ==
    [id |-> id,
     nodes |-> << Node("start", "startEvent", NoConfig),
                  Node("g", "exclusiveGateway",
                       [NoConfig EXCEPT !.defaultFlow = defaultFlow]),
                  Node("ea", "endEvent", NoConfig),
                  Node("eb", "endEvent", NoConfig),
                  Node("ec", "endEvent", NoConfig),
                  Node("ed", "endEvent", NoConfig) >>,
     edges |-> << Edge("f0", "start", "g", NONE),
                  Edge("f1", "g", "ea", "x"),
                  Edge("f2", "g", "eb", NONE),
                  Edge("f3", "g", "ec", "y"),
                  Edge("f4", "g", "ed", "z") >>]

\* start -> AND split -> branches of one and of two script tasks -> AND join -> end
WfStagger ==
    [id |-> "stagger",
     nodes |-> << Node("start", "startEvent", NoConfig),
                  Node("split", "parallelGateway", NoConfig),
                  Node("a", "scriptTask", [NoConfig EXCEPT !.script = "x"]),
                  Node("b", "scriptTask", [NoConfig EXCEPT !.script = "y"]),
                  Node("c", "scriptTask", [NoConfig EXCEPT !.script = "output"]),
                  Node("join", "and_join", [NoConfig EXCEPT !.direction = "Converging"]),
                  Node("end", "endEvent", NoConfig) >>,
     edges |-> << Edge("e1", "start", "split", NONE),
                  Edge("e2", "split", "a", NONE),
                  Edge("e3", "split", "b", NONE),
                  Edge("e4", "a", "join", NONE),
                  Edge("e5", "b", "c", NONE),
                  Edge("e6", "c", "join", NONE),
                  Edge("e7", "join", "end", NONE) >>]

\* start -> XOR split -> one of two script tasks -> converging XOR -> end
WfXorMerge ==
    [id |-> "xormerge",
     nodes |-> << Node("start", "startEvent", NoConfig),
                  Node("g", "xor_split", [NoConfig EXCEPT !.defaultFlow = "f2"]),
                  Node("a", "scriptTask", [NoConfig EXCEPT !.script = "True"]),
                  Node("b", "scriptTask", [NoConfig EXCEPT !.script = "False"]),
                  Node("m", "xor_join", [NoConfig EXCEPT !.direction = "Converging"]),
                  Node("end", "endEvent", NoConfig) >>,
     edges |-> << Edge("f0", "start", "g", NONE),
                  Edge("f1", "g", "a", "x"),
                  Edge("f2", "g", "b", NONE),
                  Edge("f3", "a", "m", NONE),
                  Edge("f4", "b", "m", NONE),
                  Edge("f5", "m", "end", NONE) >>]

\* start -> script -> XOR: back to the script while x, else end (a cycle)
WfCycle ==
    [id |-> "cycle",
     nodes |-> << Node("start", "startEvent", NoConfig),
                  Node("sc", "scriptTask", [NoConfig EXCEPT !.script = "x"]),
                  Node("g", "exclusiveGateway", [NoConfig EXCEPT !.defaultFlow = "exit"]),
                  Node("end", "endEvent", NoConfig) >>,
     edges |-> << Edge("f0", "start", "sc", NONE),
                  Edge("f1", "sc", "g", NONE),
                  Edge("back", "g", "sc", "x"),
                  Edge("exit", "g", "end", NONE) >>]

\* an acyclic graph whose XOR default_flow names a flow of another element
WfJump ==
    [id |-> "jump",
     nodes |-> << Node("start", "startEvent", NoConfig),
                  Node("s1", "scriptTask", [NoConfig EXCEPT !.script = "True"]),
                  Node("g", "exclusiveGateway", [NoConfig EXCEPT !.defaultFlow = "f0"]),
                  Node("end", "endEvent", NoConfig) >>,
     edges |-> << Edge("f0", "start", "s1", NONE),
                  Edge("f1", "s1", "g", NONE),
                  Edge("f2", "g", "end", "x") >>]

\* start -> OR split with flows [x, y] to two end events
WfOr2 ==
    [id |-> "or2",
     nodes |-> << Node("start", "startEvent", NoConfig),
                  Node("g", "inclusiveGateway", NoConfig),
                  Node("ea", "endEvent", NoConfig),
                  Node("eb", "endEvent", NoConfig) >>,
     edges |-> << Edge("f0", "start", "g", NONE),
                  Edge("f1", "g", "ea", "x"),
                  Edge("f2", "g", "eb", "y") >>]

\* start -> OR split with flows [x, unconditional, z] to three end events; the
\* node's config names the unconditional flow as its default
WfOr3 ==
    [id |-> "or3",
     nodes |-> << Node("start", "startEvent", NoConfig),
                  Node("g", "or_split", [NoConfig EXCEPT !.defaultFlow = "f2"]),
                  Node("ea", "endEvent", NoConfig),
                  Node("eb", "endEvent", NoConfig),
                  Node("ec", "endEvent", NoConfig) >>,
     edges |-> << Edge("f0", "start", "g", NONE),
                  Edge("f1", "g", "ea", "x"),
                  Edge("f2", "g", "eb", NONE),
                  Edge("f3", "g", "ec", "z") >>]

\* start -> AND split s1 -> (AND split s2 -> join) | join -> end: a child of s2
\* is put on the join in the pass in which the child of s1 is stepped there
WfNested ==
    [id |-> "nested",
     nodes |-> << Node("start", "startEvent", NoConfig),
                  Node("s1", "and_split", NoConfig),
                  Node("s2", "parallelGateway", NoConfig),
                  Node("join", "or_join", [NoConfig EXCEPT !.direction = "Converging"]),
                  Node("end", "endEvent", NoConfig) >>,
     edges |-> << Edge("e1", "start", "s1", NONE),
                  Edge("e2", "s1", "s2", NONE),
                  Edge("e3", "s1", "join", NONE),
                  Edge("e4", "s2", "join", NONE),
                  Edge("e5", "join", "end", NONE) >>]

\* start -> AND split -> two script tasks -> a join that has no outgoing flow
WfJoinEnd ==
    [id |-> "joinend",
     nodes |-> << Node("start", "startEvent", NoConfig),
                  Node("split", "and_split", NoConfig),
                  Node("a", "scriptTask", [NoConfig EXCEPT !.script = "x"]),
                  Node("b", "scriptTask", [NoConfig EXCEPT !.script = "y"]),
                  Node("join", "and_join", [NoConfig EXCEPT !.direction = "Converging"]),
                  Node("end", "endEvent", NoConfig) >>,
     edges |-> << Edge("e1", "start", "split", NONE),
                  Edge("e2", "split", "a", NONE),
                  Edge("e3", "split", "b", NONE),
                  Edge("e4", "a", "join", NONE),
                  Edge("e5", "b", "join", NONE) >>]

\* start -> script -> AND split -> script -> end | fire-and-forget service task
\* without outgoing flow | user task -> end: the children inherit the output
\* of the first script
WfDataFork ==
    [id |-> "datafork",
     nodes |-> << Node("start", "startEvent", NoConfig),
                  Node("s0", "scriptTask", [NoConfig EXCEPT !.script = "x"]),
                  Node("split", "parallelGateway", NoConfig),
                  Node("a", "scriptTask", [NoConfig EXCEPT !.script = "y"]),
                  Node("b", "send_message",
                       [NoConfig EXCEPT !.taskTemplate = "{{output}}",
                                        !.waitForCompletion = "False"]),
                  Node("u", "userTask", NoConfig),
                  Node("ea", "endEvent", NoConfig),
                  Node("ec", "endEvent", NoConfig) >>,
     edges |-> << Edge("e1", "start", "s0", NONE),
                  Edge("e2", "s0", "split", NONE),
                  Edge("e3", "split", "a", NONE),
                  Edge("e4", "split", "b", NONE),
                  Edge("e5", "split", "u", NONE),
                  Edge("e6", "a", "ea", NONE),
                  Edge("e7", "u", "ec", NONE) >>]

\* the unbalanced fork-join of WfStagger inside a loop: after the join an XOR
\* leads back to the split while x, else to the end
WfLoopJoin ==
    [id |-> "loopjoin",
     nodes |-> << Node("start", "startEvent", NoConfig),
                  Node("split", "and_split", NoConfig),
                  Node("a", "scriptTask", [NoConfig EXCEPT !.script = "x"]),
                  Node("b", "scriptTask", [NoConfig EXCEPT !.script = "y"]),
                  Node("c", "scriptTask", [NoConfig EXCEPT !.script = "output"]),
                  Node("join", "and_join", [NoConfig EXCEPT !.direction = "Converging"]),
                  Node("g", "exclusiveGateway", [NoConfig EXCEPT !.defaultFlow = "exit"]),
                  Node("end", "endEvent", NoConfig) >>,
     edges |-> << Edge("e1", "start", "split", NONE),
                  Edge("e2", "split", "a", NONE),
                  Edge("e3", "split", "b", NONE),
                  Edge("e4", "a", "join", NONE),
                  Edge("e5", "b", "c", NONE),
                  Edge("e6", "c", "join", NONE),
                  Edge("e7", "join", "g", NONE),
                  Edge("back", "g", "split", "x"),
                  Edge("exit", "g", "end", NONE) >>]

\* a fork-join inside a loop with a branch that can fail: a fire-and-forget
\* service task and a script task meet at the join; after it an XOR leads back
\* to the split while x, else to the end
WfLoopFail ==
    [id |-> "loopfail",
     nodes |-> << Node("start", "startEvent", NoConfig),
                  Node("split", "and_split", NoConfig),
                  Node("a", "handoff",
                       [NoConfig EXCEPT !.taskTemplate = "run",
                                        !.waitForCompletion = "False"]),
                  Node("b", "scriptTask", [NoConfig EXCEPT !.script = "y"]),
                  Node("join", "and_join", [NoConfig EXCEPT !.direction = "Converging"]),
                  Node("g", "exclusiveGateway", [NoConfig EXCEPT !.defaultFlow = "exit"]),
                  Node("end", "endEvent", NoConfig) >>,
     edges |-> << Edge("e1", "start", "split", NONE),
                  Edge("e2", "split", "a", NONE),
                  Edge("e3", "split", "b", NONE),
                  Edge("e4", "a", "join", NONE),
                  Edge("e5", "b", "join", NONE),
                  Edge("e6", "join", "g", NONE),
                  Edge("back", "g", "split", "x"),
                  Edge("exit", "g", "end", NONE) >>]

\* start -> waited service task with two outgoing flows to two end events
WfSvcTwoOut ==
    [id |-> "svctwoout",
     nodes |-> << Node("start", "startEvent", NoConfig),
                  Node("task", "serviceTask",
                       [NoConfig EXCEPT !.taskTemplate = "{{x}}", !.timeout = 2]),
                  Node("ea", "endEvent", NoConfig),
                  Node("eb", "endEvent", NoConfig) >>,
     edges |-> << Edge("e1", "start", "task", NONE),
                  Edge("e2", "task", "ea", NONE),
                  Edge("e3", "task", "eb", NONE) >>]

Workflows ==
    { WfLinear, WfForkJoin, WfForkSvc, WfXor("xor", NONE), WfXor("xor_default", "f2"),
      WfXor("xor_dangling", "nope"), WfStagger, WfXorMerge, WfCycle, WfJump,
      WfOr2, WfOr3, WfNested, WfJoinEnd, WfDataFork, WfLoopJoin }

\* start -> service task whose template has a syntax error -> end
WfBadTemplate ==
    [id |-> "badtemplate",
     nodes |-> << Node("start", "startEvent", NoConfig),
                  Node("task", "assign", [NoConfig EXCEPT !.taskTemplate = "{{"]),
                  Node("end", "endEvent", NoConfig) >>,
     edges |-> << Edge("e1", "start", "task", NONE),
                  Edge("e2", "task", "end", NONE) >>]

\* start -> script that appends to the list bound to the variable xs -> end
WfMutate ==
    [id |-> "mutate",
     nodes |-> << Node("start", "startEvent", NoConfig),
                  Node("sc", "scriptTask", [NoConfig EXCEPT !.script = "xs.append(1)"]),
                  Node("end", "endEvent", NoConfig) >>,
     edges |-> << Edge("e1", "start", "sc", NONE),
                  Edge("e2", "sc", "end", NONE) >>]

\* a start event without an outgoing flow, and an end event no flow leads to
WfStartOnly ==
    [id |-> "startonly",
     nodes |-> << Node("start", "startEvent", NoConfig),
                  Node("end", "endEvent", NoConfig) >>,
     edges |-> << >>]

\* the node types named after joins
LegacyJoinTypes == {"and_join", "xor_join", "or_join"}

\* start -> AND split -> two script tasks -> a node of a join type whose
\* config carries no direction -> end
WfLegacyJoin(type) ==
    [id |-> "legacy_" \o type,
     nodes |-> << Node("start", "startEvent", NoConfig),
                  Node("split", "and_split", NoConfig),
                  Node("a", "scriptTask", [NoConfig EXCEPT !.script = "x"]),
                  Node("b", "scriptTask", [NoConfig EXCEPT !.script = "y"]),
                  Node("j", type, NoConfig),
                  Node("end", "endEvent", NoConfig) >>,
     edges |-> << Edge("e1", "start", "split", NONE),
                  Edge("e2", "split", "a", NONE),
                  Edge("e3", "split", "b", NONE),
                  Edge("e4", "a", "j", NONE),
                  Edge("e5", "b", "j", NONE),
                  Edge("e6", "j", "end", NONE) >>]

\* the node types of the normalization table, and some that are not in it
NodeTypes ==
    { "startEvent", "endEvent", "serviceTask", "scriptTask", "userTask",
      "exclusiveGateway", "parallelGateway", "inclusiveGateway",
      "agent_spawn", "handoff", "assign", "send_message",
      "xor_split", "xor_join", "and_split", "and_join", "or_split", "or_join",
      "intermediateThrowEvent", "manualTask", "ServiceTask", "gateway" }

\* start -> one node of the given type -> end
WfTyped(type) ==
    [id |-> "typed_" \o type,
     nodes |-> << Node("start", "startEvent", NoConfig),
                  Node("n", type, [NoConfig EXCEPT !.timeout = 2, !.script = "x"]),
                  Node("end", "endEvent", NoConfig) >>,
     edges |-> << Edge("e1", "start", "n", NONE),
                  Edge("e2", "n", "end", NONE) >>]

\* graphs with a structural defect: no end event, no start event, an edge from
\* or to an id that is no node, an edge without a target, two defects at once,
\* no nodes
WfDefect(id, nodes, edges) == [id |-> id, nodes |-> nodes, edges |-> edges]

DefectWorkflows ==
    { WfDefect("no_end",
               << Node("start", "startEvent", NoConfig),
                  Node("s", "scriptTask", NoConfig) >>,
               << Edge("e1", "start", "s", NONE) >>),
      WfDefect("no_start",
               << Node("s", "scriptTask", NoConfig),
                  Node("end", "endEvent", NoConfig) >>,
               << Edge("e1", "s", "end", NONE) >>),
      WfDefect("bad_target",
               << Node("start", "startEvent", NoConfig),
                  Node("end", "endEvent", NoConfig) >>,
               << Edge("e1", "start", "end", NONE),
                  Edge("e2", "start", "ghost", NONE) >>),
      WfDefect("bad_source",
               << Node("start", "startEvent", NoConfig),
                  Node("end", "endEvent", NoConfig) >>,
               << Edge("e1", "ghost", "end", NONE),
                  Edge("e2", "start", "end", NONE) >>),
      WfDefect("bad_first_target",
               << Node("start", "startEvent", NoConfig),
                  Node("end", "endEvent", NoConfig) >>,
               << Edge("e1", "start", "ghost", NONE) >>),
      WfDefect("no_target",
               << Node("start", "startEvent", NoConfig),
                  Node("end", "endEvent", NoConfig) >>,
               << Edge("e1", "start", "", NONE) >>),
      WfDefect("no_end_bad_edge",
               << Node("start", "startEvent", NoConfig) >>,
               << Edge("e1", "start", "ghost", NONE) >>),
      WfDefect("no_nodes", << >>, << >>) }

\* workflow_data["variables"]: x, y, z bound to booleans, or z left undefined
VariableChoices ==
    [{"x", "y", "z"} -> {"True", "False"}] \cup [{"x", "y"} -> {"True", "False"}]

AllTrue == [k \in {"x", "y", "z"} |-> "True"]

\* workflow_data["variables"] with xs bound to an empty list
WithList == [k \in {"x", "xs"} |-> IF k = "xs" THEN "[]" ELSE "True"]

\* -------------------------------------------------------------- converter
NoError == [kind |-> NONE, id |-> NONE]

\* the table with a fallback: a type it does not list runs as a service task
normalize_element_type_lenient(node_type) ==
    CASE node_type = "startEvent" -> START_EVENT
      [] node_type = "endEvent" -> END_EVENT
      [] node_type = "scriptTask" -> SCRIPT_TASK
      [] node_type = "userTask" -> USER_TASK
      [] node_type \in {"exclusiveGateway", "xor_split", "xor_join"} -> EXCLUSIVE_GATEWAY
      [] node_type \in {"parallelGateway", "and_split", "and_join"} -> PARALLEL_GATEWAY
      [] node_type \in {"inclusiveGateway", "or_split", "or_join"} -> INCLUSIVE_GATEWAY
      [] OTHER -> SERVICE_TASK

normalize_element_type(node_type) ==
    CASE node_type = "startEvent" -> START_EVENT
      [] node_type = "endEvent" -> END_EVENT
      [] node_type \in {"serviceTask", "agent_spawn", "handoff", "assign", "send_message"}
            -> SERVICE_TASK
      [] node_type = "scriptTask" -> SCRIPT_TASK
      [] node_type = "userTask" -> USER_TASK
      [] node_type \in {"exclusiveGateway", "xor_split", "xor_join"} -> EXCLUSIVE_GATEWAY
      [] node_type \in {"parallelGateway", "and_split", "and_join"} -> PARALLEL_GATEWAY
      [] node_type \in {"inclusiveGateway", "or_split", "or_join"} -> INCLUSIVE_GATEWAY
      [] OTHER -> NONE

\* The fields of every element variant, with the dataclass defaults.
BPMNElement(id, type) ==
    [id |-> id, type |-> type, direction |-> NONE, default_flow |-> NONE,
     task_template |-> "", timeout |-> DefaultTimeout, wait_for_completion |-> "True",
     script |-> ""]

NoElement == BPMNElement(NONE, NONE)

ConfigGet(value, default) == IF value = NONE THEN default ELSE value

\* the conversion in which a node of a join type without a direction becomes
\* a Converging gateway
convert_node_to_element_joining(node) ==
    LET config == node.data.config
        element_type == normalize_element_type(node.data.type)
        base == BPMNElement(node.id, element_type)
        direction == ConfigGet(config.direction,
                               IF node.data.type \in {"and_join", "xor_join", "or_join"}
                               THEN CONVERGING ELSE DIVERGING)
    IN  IF node.id \in {NONE, ""} \/ node.data.type \in {NONE, ""}
           \/ element_type = NONE
        THEN [error |-> TRUE, element |-> NoElement]
        ELSE IF element_type \in {START_EVENT, END_EVENT, USER_TASK}
        THEN [error |-> FALSE, element |-> base]
        ELSE IF element_type = SERVICE_TASK
        THEN [error |-> FALSE,
              element |-> [base EXCEPT
                  !.task_template = ConfigGet(config.taskTemplate, ""),
                  !.timeout = IF config.timeout = -1 THEN DefaultTimeout
                              ELSE config.timeout,
                  !.wait_for_completion = ConfigGet(config.waitForCompletion, "True")]]
        ELSE IF element_type = SCRIPT_TASK
        THEN [error |-> FALSE,
              element |-> [base EXCEPT !.script = ConfigGet(config.script, "")]]
        ELSE IF element_type \in {EXCLUSIVE_GATEWAY, PARALLEL_GATEWAY, INCLUSIVE_GATEWAY}
                /\ direction \notin {DIVERGING, CONVERGING, MIXED}
        THEN [error |-> TRUE, element |-> NoElement]
        ELSE IF element_type = EXCLUSIVE_GATEWAY
        THEN [error |-> FALSE,
              element |-> [base EXCEPT !.direction = direction,
                                       !.default_flow = config.defaultFlow]]
        ELSE [error |-> FALSE, element |-> [base EXCEPT !.direction = direction]]

\* [error, element]: error is TRUE when the node raises
convert_node_to_element(node) ==
    LET config == node.data.config
        element_type == normalize_element_type(node.data.type)
        base == BPMNElement(node.id, element_type)
        direction == ConfigGet(config.direction, DIVERGING)
    IN  IF node.id \in {NONE, ""} \/ node.data.type \in {NONE, ""}
           \/ element_type = NONE
        THEN [error |-> TRUE, element |-> NoElement]
        ELSE IF element_type \in {START_EVENT, END_EVENT, USER_TASK}
        THEN [error |-> FALSE, element |-> base]
        ELSE IF element_type = SERVICE_TASK
        THEN [error |-> FALSE,
              element |-> [base EXCEPT
                  !.task_template = ConfigGet(config.taskTemplate, ""),
                  !.timeout = IF config.timeout = -1 THEN DefaultTimeout
                              ELSE config.timeout,
                  !.wait_for_completion = ConfigGet(config.waitForCompletion, "True")]]
        ELSE IF element_type = SCRIPT_TASK
        THEN [error |-> FALSE,
              element |-> [base EXCEPT !.script = ConfigGet(config.script, "")]]
        ELSE IF element_type \in {EXCLUSIVE_GATEWAY, PARALLEL_GATEWAY, INCLUSIVE_GATEWAY}
                /\ direction \notin {DIVERGING, CONVERGING, MIXED}
        THEN [error |-> TRUE, element |-> NoElement]
        ELSE IF element_type = EXCLUSIVE_GATEWAY
        THEN [error |-> FALSE,
              element |-> [base EXCEPT !.direction = direction,
                                       !.default_flow = config.defaultFlow]]
        ELSE IF element_type \in {PARALLEL_GATEWAY, INCLUSIVE_GATEWAY}
        THEN [error |-> FALSE, element |-> [base EXCEPT !.direction = direction]]
        ELSE [error |-> TRUE, element |-> NoElement]

\* [error, flow]
convert_edge_to_flow(edge) ==
    IF edge.id \in {NONE, ""} \/ edge.source \in {NONE, ""} \/ edge.target \in {NONE, ""}
    THEN [error |-> TRUE,
          flow |-> [id |-> NONE, source_ref |-> NONE, target_ref |-> NONE,
                    condition_expression |-> NONE]]
    ELSE [error |-> FALSE,
          flow |-> [id |-> edge.id, source_ref |-> edge.source,
                    target_ref |-> edge.target,
                    condition_expression |-> edge.data.conditionExpression]]

\* ------------------------------------------------- process definition model
get_element(p, element_id) ==
    IF \E i \in 1..Len(p.elements) : p.elements[i].id = element_id
    THEN p.elements[CHOOSE i \in 1..Len(p.elements) : p.elements[i].id = element_id]
    ELSE NoElement

NoFlow == [id |-> NONE, source_ref |-> NONE, target_ref |-> NONE,
           condition_expression |-> NONE]

get_sequence_flow(p, flow_id) ==
    IF \E i \in 1..Len(p.sequence_flows) : p.sequence_flows[i].id = flow_id
    THEN p.sequence_flows[CHOOSE i \in 1..Len(p.sequence_flows) :
                              p.sequence_flows[i].id = flow_id]
    ELSE NoFlow

get_outgoing_flows(p, element_id) ==
    SelectSeq(p.sequence_flows, LAMBDA flow : flow.source_ref = element_id)

get_incoming_flows(p, element_id) ==
    SelectSeq(p.sequence_flows, LAMBDA flow : flow.target_ref = element_id)

get_start_events(p) == SelectSeq(p.elements, LAMBDA elem : elem.type = START_EVENT)

get_end_events(p) == SelectSeq(p.elements, LAMBDA elem : elem.type = END_EVENT)

\* the validation without its loop over the sequence flows
validate_process_flows_unchecked(p) ==
    IF get_start_events(p) = << >> THEN [kind |-> "no_start", id |-> NONE]
    ELSE IF get_end_events(p) = << >> THEN [kind |-> "no_end", id |-> NONE]
    ELSE NoError

\* the validation without its check for an end event
validate_process_end_unchecked(p) ==
    LET bad == { i \in 1..Len(p.sequence_flows) :
                   \/ get_element(p, p.sequence_flows[i].source_ref) = NoElement
                   \/ get_element(p, p.sequence_flows[i].target_ref) = NoElement }
    IN  IF get_start_events(p) = << >> THEN [kind |-> "no_start", id |-> NONE]
        ELSE IF bad # {}
        THEN [kind |-> "flow",
              id |-> p.sequence_flows[CHOOSE i \in bad : \A j \in bad : i <= j].id]
        ELSE NoError

\* the first validation failure, or NoError
validate_process(p) ==
    LET bad == { i \in 1..Len(p.sequence_flows) :
                   \/ get_element(p, p.sequence_flows[i].source_ref) = NoElement
                   \/ get_element(p, p.sequence_flows[i].target_ref) = NoElement }
    IN  IF get_start_events(p) = << >> THEN [kind |-> "no_start", id |-> NONE]
        ELSE IF get_end_events(p) = << >> THEN [kind |-> "no_end", id |-> NONE]
        ELSE IF bad # {}
        THEN [kind |-> "flow",
              id |-> p.sequence_flows[CHOOSE i \in bad : \A j \in bad : i <= j].id]
        ELSE NoError

NoProcess == [id |-> NONE, elements |-> << >>, sequence_flows |-> << >>,
              process_variables |-> EmptyDict]

RECURSIVE ConvertNodes(_, _)
\* the loop over workflow_data["nodes"]: [error, elements]
ConvertNodes(nodes, acc) ==
    IF nodes = << >> THEN [error |-> NoError, elements |-> acc]
    ELSE LET r == convert_node_to_element(Head(nodes))
         IN  IF r.error
             THEN [error |-> [kind |-> "node", id |-> Head(nodes).id], elements |-> acc]
             ELSE ConvertNodes(Tail(nodes), PutById(acc, r.element))

RECURSIVE ConvertEdges(_, _)
\* the loop over workflow_data["edges"]: [error, flows]
ConvertEdges(edges, acc) ==
    IF edges = << >> THEN [error |-> NoError, flows |-> acc]
    ELSE LET r == convert_edge_to_flow(Head(edges))
         IN  IF r.error
             THEN [error |-> [kind |-> "edge", id |-> Head(edges).id], flows |-> acc]
             ELSE ConvertEdges(Tail(edges), PutById(acc, r.flow))

\* [error, process]: error is NoError when a definition is returned
convert_workflow_to_bpmn(data) ==
    LET ns == ConvertNodes(data.nodes, << >>)
        es == ConvertEdges(data.edges, << >>)
        p == [id |-> data.id, elements |-> ns.elements, sequence_flows |-> es.flows,
              process_variables |-> data.variables]
    IN  IF data.id \in {NONE, ""} THEN [error |-> [kind |-> "no_id", id |-> NONE],
                                         process |-> NoProcess]
        ELSE IF data.nodes = << >> THEN [error |-> [kind |-> "no_nodes", id |-> NONE],
                                         process |-> NoProcess]
        ELSE IF ns.error # NoError THEN [error |-> ns.error, process |-> NoProcess]
        ELSE IF es.error # NoError THEN [error |-> es.error, process |-> NoProcess]
        ELSE IF validate_process(p) # NoError
        THEN [error |-> validate_process(p), process |-> NoProcess]
        ELSE [error |-> NoError, process |-> p]

\* ------------------------------------------- definitions built by a caller
\* BPMNProcess objects handed to the engine without the converter.
SequenceFlow(id, source_ref, target_ref, condition_expression) ==
    [id |-> id, source_ref |-> source_ref, target_ref |-> target_ref,
     condition_expression |-> condition_expression]

\* the definition of WfOr3 with the inclusive gateway's default_flow set
DefOrDefault(vs) ==
    [id |-> "or_default",
     elements |-> << BPMNElement("start", START_EVENT),
                     [BPMNElement("g", INCLUSIVE_GATEWAY) EXCEPT
                          !.direction = DIVERGING, !.default_flow = "f2"],
                     BPMNElement("ea", END_EVENT),
                     BPMNElement("eb", END_EVENT),
                     BPMNElement("ec", END_EVENT) >>,
     sequence_flows |-> << SequenceFlow("f0", "start", "g", NONE),
                           SequenceFlow("f1", "g", "ea", "x"),
                           SequenceFlow("f2", "g", "eb", NONE),
                           SequenceFlow("f3", "g", "ec", "z") >>,
     process_variables |-> vs]

\* a flow in the middle of the graph whose target is no element
DefDangling ==
    [id |-> "dangling",
     elements |-> << BPMNElement("start", START_EVENT),
                     [BPMNElement("s", SCRIPT_TASK) EXCEPT !.script = "True"],
                     BPMNElement("end", END_EVENT) >>,
     sequence_flows |-> << SequenceFlow("f0", "start", "s", NONE),
                           SequenceFlow("f1", "s", "ghost", NONE) >>,
     process_variables |-> EmptyDict]

\* the start event's first flow leads to no element
DefDanglingStart ==
    [id |-> "dangling_start",
     elements |-> << BPMNElement("start", START_EVENT),
                     BPMNElement("end", END_EVENT) >>,
     sequence_flows |-> << SequenceFlow("f0", "start", "ghost", NONE) >>,
     process_variables |-> EmptyDict]

\* no start event
DefNoStart ==
    [id |-> "no_start_event",
     elements |-> << BPMNElement("end", END_EVENT) >>,
     sequence_flows |-> << >>,
     process_variables |-> EmptyDict]

Definitions ==
    { DefOrDefault(vs) : vs \in VariableChoices }
      \cup { DefDangling, DefDanglingStart, DefNoStart }

\* ---------------------------------------------------- expression evaluator
\* The variable a template interpolates, NONE for plain text.
TemplateVariable(template) ==
    CASE template = "{{x}}" -> "x"
      [] template = "{{y}}" -> "y"
      [] template = "{{z}}" -> "z"
      [] template = "{{output}}" -> "output"
      [] OTHER -> NONE

\* [ok, value]: StrictUndefined makes a reference to a missing variable raise
render_template(template, context) ==
    IF template = "{{" THEN [ok |-> FALSE, value |-> NONE]
    ELSE IF TemplateVariable(template) = NONE THEN [ok |-> TRUE, value |-> template]
    ELSE IF TemplateVariable(template) \in DOMAIN context
    THEN [ok |-> TRUE, value |-> context[TemplateVariable(template)]]
    ELSE [ok |-> FALSE, value |-> NONE]

\* Python lists of at most two items, as their repr; list.append(1)
ListAppend(list) ==
    CASE list = "[]" -> "[1]"
      [] list = "[1]" -> "[1, 1]"
      [] OTHER -> list

\* The context after eval(expression): the expression xs.append(1) changes the
\* list object bound to xs in place, every other expression changes nothing.
EvalEffect(expression, context) ==
    IF expression = "xs.append(1)" /\ "xs" \in DOMAIN context
    THEN [context EXCEPT !["xs"] = ListAppend(@)]
    ELSE context

\* [ok, value]: eval of a literal, of a name looked up in the context, or of
\* the call xs.append(1) (which returns None); a name the context does not
\* bind raises
evaluate(expression, context) ==
    IF expression \in {"True", "False"} THEN [ok |-> TRUE, value |-> expression]
    ELSE IF expression = "xs.append(1)"
    THEN [ok |-> "xs" \in DOMAIN context, value |-> NONE]
    ELSE IF expression \in DOMAIN context
    THEN [ok |-> TRUE, value |-> context[expression]]
    ELSE [ok |-> FALSE, value |-> NONE]

\* {**self.instance.variables, **token.data}
Context(vs, data) == DictUpdate(vs, data)

\* the token constructor that seeds the data with the id of the element
TokenSeeded(id, element_id, data, parent) ==
    [id |-> id, current_element_id |-> element_id, state |-> ACTIVE,
     data |-> DictSet(data, "origin", element_id), parent_token_id |-> parent,
     error |-> NONE]

\* -------------------------------------------------------- process instance
Token(id, element_id, data, parent) ==
    [id |-> id, current_element_id |-> element_id, state |-> ACTIVE, data |-> data,
     parent_token_id |-> parent, error |-> NONE]

Indices(seq) == [i \in 1..Len(seq) |-> i]

\* the loop condition also counting Waiting tokens as work to do
get_active_or_waiting_tokens(tk) ==
    SelectSeq(Indices(tk), LAMBDA i : tk[i].state \in {ACTIVE, WAITING})

\* the ids of the Active tokens, in the order of instance.tokens
get_active_tokens(tk) == SelectSeq(Indices(tk), LAMBDA i : tk[i].state = ACTIVE)

\* the lookup restricted to the tokens that existed when the pass began: the
\* children of the tokens stepped earlier in the pass are left out
get_tokens_at_element_of_pass(tk, element_id) ==
    SelectSeq(Indices(tk), LAMBDA i :
        /\ tk[i].current_element_id = element_id
        /\ tk[i].parent_token_id \notin { active_tokens[j] : j \in 1..(idx - 1) })

\* the ids of the tokens positioned at the element, in the order of instance.tokens
get_tokens_at_element(tk, element_id) ==
    SelectSeq(Indices(tk), LAMBDA i : tk[i].current_element_id = element_id)

\* ------------------------------------------------------------------ engine
\* A handler's outcome: the tokens and element states it leaves, and the
\* exception it raised (NONE when it returned).
Outcome(tk, es, exc) == [tokens |-> tk, element_states |-> es, exc |-> exc]

\* the move that records the flow taken in place of its target element
move_token_onto_flow(tk, t, sequence_flow) ==
    IF get_element(process, sequence_flow.target_ref) = NoElement
    THEN [tokens |-> tk, exc |-> "target_not_found"]
    ELSE [tokens |-> [tk EXCEPT ![t].current_element_id = sequence_flow.id],
          exc |-> NONE]

\* [tokens, exc]
move_token(tk, t, sequence_flow) ==
    IF get_element(process, sequence_flow.target_ref) = NoElement
    THEN [tokens |-> tk, exc |-> "target_not_found"]
    ELSE [tokens |-> [tk EXCEPT ![t].current_element_id = sequence_flow.target_ref],
          exc |-> NONE]

\* outgoing_flows = get_outgoing_flows(id); move onto the first, else complete
AdvanceFirst(tk, es, t, element_id) ==
    LET outgoing_flows == get_outgoing_flows(process, element_id)
        mv == move_token(tk, t, outgoing_flows[1])
    IN  IF outgoing_flows # << >>
        THEN Outcome(mv.tokens, es, mv.exc)
        ELSE Outcome([tk EXCEPT ![t].state = COMPLETED], es, NONE)

execute_end_event(tk, es, t, element) ==
    Outcome([tk EXCEPT ![t].state = COMPLETED], DictSet(es, element.id, "completed"), NONE)

\* the script task on a data dict shared by the tokens of a split: the output
\* shows in the parent and in every sibling
execute_script_task_shared_data(tk, es, t, task) ==
    LET running == DictSet(es, task.id, "running")
        result == evaluate(task.script, Context(variables, tk[t].data))
        family == { i \in 1..Len(tk) : \/ i = t
                                       \/ i = tk[t].parent_token_id
                                       \/ /\ tk[t].parent_token_id # 0
                                          /\ tk[i].parent_token_id = tk[t].parent_token_id }
        tk1 == [i \in 1..Len(tk) |->
                  IF i \in family
                  THEN [tk[i] EXCEPT !.data = DictSet(@, "output", result.value)]
                  ELSE tk[i]]
    IN  IF ~result.ok THEN Outcome(tk, running, "invalid_expression")
        ELSE AdvanceFirst(tk1, DictSet(running, task.id, "completed"), t, task.id)

\* the script task that does not set its element "completed"
execute_script_task_left_running(tk, es, t, task) ==
    LET running == DictSet(es, task.id, "running")
        result == evaluate(task.script, Context(variables, tk[t].data))
        tk1 == [tk EXCEPT ![t].data = DictSet(@, "output", result.value)]
    IN  IF ~result.ok THEN Outcome(tk, running, "invalid_expression")
        ELSE AdvanceFirst(tk1, running, t, task.id)

execute_script_task(tk, es, t, task) ==
    LET running == DictSet(es, task.id, "running")
        result == evaluate(task.script, Context(variables, tk[t].data))
        tk1 == [tk EXCEPT ![t].data = DictSet(@, "output", result.value)]
    IN  IF ~result.ok THEN Outcome(tk, running, "invalid_expression")
        ELSE AdvanceFirst(tk1, DictSet(running, task.id, "completed"), t, task.id)

\* the user task that resumes by itself: the token goes on along the first flow
execute_user_task_advancing(tk, es, t, task) ==
    AdvanceFirst(tk, DictSet(es, task.id, "waiting_for_user"), t, task.id)

execute_user_task(tk, es, t, task) ==
    Outcome([tk EXCEPT ![t].state = WAITING],
            DictSet(es, task.id, "waiting_for_user"), NONE)

\* Does the flow carry a condition the split evaluates (if flow.condition_expression)?
HasCondition(flow) == flow.condition_expression \notin {NONE, ""}

ConditionResult(flow, data) ==
    evaluate(flow.condition_expression, Context(variables, data))

\* the selection loop without its break: the last matching flow wins
LastDeciding(flows, data) ==
    LET hits == { i \in 1..Len(flows) :
                    /\ HasCondition(flows[i])
                    /\ \/ ~ConditionResult(flows[i], data).ok
                       \/ Truthy(ConditionResult(flows[i], data).value) }
    IN  IF hits = {} THEN 0 ELSE CHOOSE i \in hits : \A j \in hits : i >= j

\* The position of the flow at which the XOR loop stops: the first flow whose
\* condition raises or is truthy; 0 when the loop runs to its end.
FirstDeciding(flows, data) ==
    LET hits == { i \in 1..Len(flows) :
                    /\ HasCondition(flows[i])
                    /\ \/ ~ConditionResult(flows[i], data).ok
                       \/ Truthy(ConditionResult(flows[i], data).value) }
    IN  IF hits = {} THEN 0 ELSE CHOOSE i \in hits : \A j \in hits : i <= j

\* the fallback that ignores default_flow
FallbackFlowFirst(gateway, outgoing_flows) == outgoing_flows[1]

\* selected_flow when no condition matched: the default flow if the gateway
\* names one and the definition has it, else the first outgoing flow
FallbackFlow(gateway, outgoing_flows) ==
    LET by_default ==
            IF gateway.default_flow \notin {NONE, ""}
            THEN get_sequence_flow(process, gateway.default_flow)
            ELSE NoFlow
    IN  IF by_default # NoFlow THEN by_default ELSE outgoing_flows[1]

\* the exclusive split written like the parallel one: the token is consumed and
\* a child continues on the selected flow
execute_xor_split_spawning(tk, es, t, gateway) ==
    LET outgoing_flows == get_outgoing_flows(process, gateway.id)
        first == FirstDeciding(outgoing_flows, tk[t].data)
        selected_flow ==
            IF first # 0 THEN outgoing_flows[first]
            ELSE FallbackFlow(gateway, outgoing_flows)
        done == [tk EXCEPT ![t].state = COMPLETED]
        child == Token(Len(tk) + 1, selected_flow.target_ref, tk[t].data, t)
    IN  IF outgoing_flows = << >> THEN Outcome(done, es, NONE)
        ELSE IF first # 0 /\ ~ConditionResult(outgoing_flows[first], tk[t].data).ok
        THEN Outcome(tk, es, "invalid_expression")
        ELSE Outcome(Append(done, child), es, NONE)

execute_xor_split(tk, es, t, gateway) ==
    LET outgoing_flows == get_outgoing_flows(process, gateway.id)
        first == FirstDeciding(outgoing_flows, tk[t].data)
        selected_flow ==
            IF first # 0 THEN outgoing_flows[first]
            ELSE FallbackFlow(gateway, outgoing_flows)
        mv == move_token(tk, t, selected_flow)
    IN  IF outgoing_flows = << >>
        THEN Outcome([tk EXCEPT ![t].state = COMPLETED], es, NONE)
        ELSE IF first # 0 /\ ~ConditionResult(outgoing_flows[first], tk[t].data).ok
        THEN Outcome(tk, es, "invalid_expression")
        ELSE Outcome(mv.tokens, es, mv.exc)

RECURSIVE SpawnChildren(_, _, _, _)
\* the loop creating one child per flow and moving it: [tokens, exc]
SpawnChildren(tk, t, gateway_id, flows) ==
    IF flows = << >> THEN [tokens |-> tk, exc |-> NONE]
    ELSE LET child == Token(Len(tk) + 1, gateway_id, tk[t].data, t)
             mv == move_token(Append(tk, child), Len(tk) + 1, Head(flows))
         IN  IF mv.exc # NONE THEN mv
             ELSE SpawnChildren(mv.tokens, t, gateway_id, Tail(flows))

\* the split without token.state = COMPLETED: the parent stays Active
execute_and_split_parent_kept(tk, es, t, gateway) ==
    LET outgoing_flows == get_outgoing_flows(process, gateway.id)
        sp == SpawnChildren(tk, t, gateway.id, outgoing_flows)
    IN  IF outgoing_flows = << >>
        THEN Outcome([tk EXCEPT ![t].state = COMPLETED], es, NONE)
        ELSE Outcome(sp.tokens, es, sp.exc)

execute_and_split(tk, es, t, gateway) ==
    LET outgoing_flows == get_outgoing_flows(process, gateway.id)
        done == [tk EXCEPT ![t].state = COMPLETED]
        sp == SpawnChildren(done, t, gateway.id, outgoing_flows)
    IN  IF outgoing_flows = << >> THEN Outcome(done, es, NONE)
        ELSE Outcome(sp.tokens, es, sp.exc)

\* the OR split without its elif: a flow without a condition is never active
ActiveFlowsNoDefault(flows, gateway, data) ==
    SelectSeq(flows, LAMBDA flow :
        HasCondition(flow) /\ Truthy(ConditionResult(flow, data).value))

\* the OR split taking every flow without a condition as active
ActiveFlowsUnconditionalTrue(flows, gateway, data) ==
    SelectSeq(flows, LAMBDA flow :
        HasCondition(flow) => Truthy(ConditionResult(flow, data).value))

\* The flows the OR split appends to active_flows, in order.
ActiveFlows(flows, gateway, data) ==
    SelectSeq(flows, LAMBDA flow :
        IF HasCondition(flow) THEN Truthy(ConditionResult(flow, data).value)
        ELSE flow.id = gateway.default_flow)

execute_or_split(tk, es, t, gateway) ==
    LET outgoing_flows == get_outgoing_flows(process, gateway.id)
        raises == \E i \in 1..Len(outgoing_flows) :
                     /\ HasCondition(outgoing_flows[i])
                     /\ ~ConditionResult(outgoing_flows[i], tk[t].data).ok
        found == ActiveFlows(outgoing_flows, gateway, tk[t].data)
        active_flows == IF found = << >> THEN outgoing_flows ELSE found
        done == [tk EXCEPT ![t].state = COMPLETED]
        sp == SpawnChildren(done, t, gateway.id, active_flows)
    IN  IF outgoing_flows = << >> THEN Outcome(done, es, NONE)
        ELSE IF raises THEN Outcome(tk, es, "invalid_expression")
        ELSE Outcome(sp.tokens, es, sp.exc)

RECURSIVE CombinedDataFirstWins(_, _)
\* the merge with setdefault in place of update: the earlier token's keys win
CombinedDataFirstWins(tk, ids) ==
    IF ids = << >> THEN EmptyDict
    ELSE DictUpdate(tk[ids[Len(ids)]].data,
                    CombinedDataFirstWins(tk, SubSeq(ids, 1, Len(ids) - 1)))

RECURSIVE CombinedData(_, _)
\* combined_data.update(t.data) over the tokens at the gateway, in order
CombinedData(tk, ids) ==
    IF ids = << >> THEN EmptyDict
    ELSE DictUpdate(CombinedData(tk, SubSeq(ids, 1, Len(ids) - 1)),
                    tk[ids[Len(ids)]].data)

\* the barrier comparison off by one: the join fires one arrival early
BarrierSatisfiedEarly(arrived_count, required_count) ==
    ~(arrived_count + 1 < required_count)

\* if arrived_count < required_count: wait; otherwise the join fires
BarrierSatisfied(arrived_count, required_count) == ~(arrived_count < required_count)

\* the firing of a join that re-activates the other tokens at the gateway
JoinMergeOthersActive(tk, t, tokens_at_gateway) ==
    LET at == { tokens_at_gateway[i] : i \in 1..Len(tokens_at_gateway) }
    IN  [i \in 1..Len(tk) |->
           IF i = t
           THEN [tk[i] EXCEPT !.data = CombinedData(tk, tokens_at_gateway),
                              !.state = ACTIVE]
           ELSE IF i \in at THEN [tk[i] EXCEPT !.state = ACTIVE]
           ELSE tk[i]]

\* The firing of a join: the stepped token takes the combined data and is
\* Active, every other token at the gateway is Completed.
JoinMerge(tk, t, tokens_at_gateway) ==
    LET at == { tokens_at_gateway[i] : i \in 1..Len(tokens_at_gateway) }
    IN  [i \in 1..Len(tk) |->
           IF i = t
           THEN [tk[i] EXCEPT !.data = CombinedData(tk, tokens_at_gateway),
                              !.state = ACTIVE]
           ELSE IF i \in at THEN [tk[i] EXCEPT !.state = COMPLETED]
           ELSE tk[i]]

execute_gateway_join(tk, es, t, gateway) ==
    LET incoming_flows == get_incoming_flows(process, gateway.id)
        tokens_at_gateway == get_tokens_at_element(tk, gateway.id)
        required_count == Len(incoming_flows)
        arrived_count == Len(tokens_at_gateway)
    IN  IF ~BarrierSatisfied(arrived_count, required_count)
        THEN Outcome([tk EXCEPT ![t].state = WAITING], es, NONE)
        ELSE AdvanceFirst(JoinMerge(tk, t, tokens_at_gateway), es, t, gateway.id)

\* the exclusive gateway that merges: a Converging one passes every token on
execute_exclusive_gateway_merging(tk, es, t, gateway) ==
    IF gateway.direction = CONVERGING THEN AdvanceFirst(tk, es, t, gateway.id)
    ELSE execute_xor_split(tk, es, t, gateway)

execute_exclusive_gateway(tk, es, t, gateway) ==
    IF gateway.direction = CONVERGING THEN execute_gateway_join(tk, es, t, gateway)
    ELSE execute_xor_split(tk, es, t, gateway)

execute_parallel_gateway(tk, es, t, gateway) ==
    IF gateway.direction = CONVERGING THEN execute_gateway_join(tk, es, t, gateway)
    ELSE execute_and_split(tk, es, t, gateway)

execute_inclusive_gateway(tk, es, t, gateway) ==
    IF gateway.direction = CONVERGING THEN execute_gateway_join(tk, es, t, gateway)
    ELSE execute_or_split(tk, es, t, gateway)

\* The body of the try block for every element that is not a ServiceTask.
Dispatch(tk, es, t, element) ==
    CASE element.type = END_EVENT -> execute_end_event(tk, es, t, element)
      [] element.type = SCRIPT_TASK -> execute_script_task(tk, es, t, element)
      [] element.type = USER_TASK -> execute_user_task(tk, es, t, element)
      [] element.type = EXCLUSIVE_GATEWAY -> execute_exclusive_gateway(tk, es, t, element)
      [] element.type = PARALLEL_GATEWAY -> execute_parallel_gateway(tk, es, t, element)
      [] element.type = INCLUSIVE_GATEWAY -> execute_inclusive_gateway(tk, es, t, element)
      [] OTHER -> AdvanceFirst(tk, es, t, element.id)

\* the handler without self.instance.element_states[element.id] = "failed"
HandleExceptionNoElementState(out, t, element) ==
    IF out.exc = NONE THEN out
    ELSE Outcome([out.tokens EXCEPT ![t].state = FAILED, ![t].error = out.exc],
                 out.element_states, out.exc)

\* except Exception as e: the token fails, the error is recorded, the element
\* state becomes "failed"
HandleException(out, t, element) ==
    IF out.exc = NONE THEN out
    ELSE Outcome([out.tokens EXCEPT ![t].state = FAILED, ![t].error = out.exc],
                 DictSet(out.element_states, element.id, "failed"), out.exc)

\* The name of the handler a step at the element runs.
Handler(element) ==
    CASE element = NoElement -> "not_found"
      [] element.type = END_EVENT -> "end_event"
      [] element.type = SERVICE_TASK -> "service_task"
      [] element.type = SCRIPT_TASK -> "script_task"
      [] element.type = USER_TASK -> "user_task"
      [] element.type \in {EXCLUSIVE_GATEWAY, PARALLEL_GATEWAY, INCLUSIVE_GATEWAY}
         /\ element.direction = CONVERGING -> "join"
      [] element.type = EXCLUSIVE_GATEWAY -> "xor_split"
      [] element.type = PARALLEL_GATEWAY -> "and_split"
      [] element.type = INCLUSIVE_GATEWAY -> "or_split"
      [] OTHER -> "other"

\* _execute_token for an element that is not a ServiceTask
execute_token(tk, es, t) ==
    LET element == get_element(process, tk[t].current_element_id)
    IN  IF element = NoElement
        THEN Outcome([tk EXCEPT ![t].state = FAILED, ![t].error = "element_not_found"],
                     es, NONE)
        ELSE HandleException(Dispatch(tk, es, t, element), t, element)

\* ------------------------------------------------------------ service task
TermId(n) == "term" \o ToString(n)

\* content of get_terminal_output(terminal_id, mode="full")
Outputs == {"", "ok"}

\* terminal_service.create_terminal(...): a new terminal that has received nothing
create_terminal(ts) ==
    DictSet(ts, TermId(Cardinality(DOMAIN ts) + 1), [inputs |-> << >>, queries |-> 0])

\* terminal_service.create_terminal(...) followed by send_direct_input(id, text)
CreateAndSend(ts, text) ==
    DictSet(ts, TermId(Cardinality(DOMAIN ts) + 1), [inputs |-> << text >>, queries |-> 0])

\* The calls of the terminal service that may raise while a task is started:
\* none, create_terminal, or the send_direct_input of the rendered text.
TerminalFaults == {"none", "create", "send"}

send_direct_input(ts, tid, text) == [ts EXCEPT ![tid].inputs = Append(@, text)]

\* the status query of a service that also ends the worker
get_terminal_info_exiting(ts, tid) ==
    [ts EXCEPT ![tid].queries = @ + 1, ![tid].inputs = Append(@, "/exit")]

get_terminal_info(ts, tid) == [ts EXCEPT ![tid].queries = @ + 1]

\* the rendering that turns a template it cannot render into the empty text
RenderedTaskLenient(tk, t, task) ==
    LET r == render_template(task.task_template, Context(variables, tk[t].data))
    IN  IF r.ok THEN r ELSE [ok |-> TRUE, value |-> ""]

\* the rendering of task.task_template by _execute_service_task
RenderedTask(tk, t, task) ==
    render_template(task.task_template, Context(variables, tk[t].data))

\* the fire-and-forget branch that does not keep the handle in the token
service_task_spawned_no_handle(tk, es, t, task, tid) ==
    AdvanceFirst(tk, DictSet(es, task.id, "spawned"), t, task.id)

\* _execute_service_task, wait_for_completion false: record the handle, advance
service_task_spawned(tk, es, t, task, tid) ==
    AdvanceFirst([tk EXCEPT ![t].data = DictSet(@, "terminal_id", tid)],
                 DictSet(es, task.id, "spawned"), t, task.id)

\* the completion without element_states[task.id] = "completed"
service_task_completed_state_kept(tk, es, t, task, output) ==
    AdvanceFirst([tk EXCEPT ![t].data = DictSet(@, "output", output)], es, t, task.id)

\* the completion that advances onto the last outgoing flow
service_task_completed_last_flow(tk, es, t, task, output) ==
    LET outgoing_flows == get_outgoing_flows(process, task.id)
        tk1 == [tk EXCEPT ![t].data = DictSet(@, "output", output)]
        mv == move_token(tk1, t, outgoing_flows[Len(outgoing_flows)])
        es1 == DictSet(es, task.id, "completed")
    IN  IF outgoing_flows # << >>
        THEN Outcome(mv.tokens, es1, mv.exc)
        ELSE Outcome([tk1 EXCEPT ![t].state = COMPLETED], es1, NONE)

\* _execute_service_task after the wait returned output: store it, advance
service_task_completed(tk, es, t, task, output) ==
    AdvanceFirst([tk EXCEPT ![t].data = DictSet(@, "output", output)],
                 DictSet(es, task.id, "completed"), t, task.id)

\* the loop condition written elapsed <= timeout: one poll too many
PollContinuesInclusive(e, timeout) == e <= timeout

\* the loop condition of _wait_for_terminal_completion
PollContinues(e, timeout) == e < timeout

\* ------------------------------------------------------------------ actions
NoStep == [token |-> 0, element |-> NONE, op |-> NONE, exc |-> NONE]

\* Is the input a graph for the converter (and not a definition built by the
\* caller of the engine)?
Converted == "nodes" \in DOMAIN workflow_data

\* no call has been made to the execution-state registry
NoCall ==
    [op |-> NONE, session_name |-> NONE, workflow_id |-> NONE, node_id |-> NONE,
     status |-> NONE, terminal_id |-> NONE]

Init ==
    /\ workflow_data \in
         { [id |-> w.id, nodes |-> w.nodes, edges |-> w.edges, variables |-> v] :
             w \in Workflows, v \in VariableChoices }
           \cup { [id |-> w.id, nodes |-> w.nodes, edges |-> w.edges,
                   variables |-> AllTrue] :
                     w \in { WfTyped(type) : type \in NodeTypes } \cup DefectWorkflows
                             \cup { WfSvcTwoOut, WfBadTemplate, WfStartOnly, WfLoopFail }
                             \cup { WfLegacyJoin(type) : type \in LegacyJoinTypes } }
           \cup { [id |-> WfMutate.id, nodes |-> WfMutate.nodes,
                   edges |-> WfMutate.edges, variables |-> WithList] }
           \cup { [id |-> d.id, definition |-> d] : d \in Definitions }
    /\ process = NoProcess
    /\ variables = EmptyDict
    /\ tokens = << >>
    /\ element_states = EmptyDict
    /\ terminal_mappings = EmptyDict
    /\ terminals = EmptyDict
    /\ pc = IF Converted THEN "convert" ELSE "construct"
    /\ active_tokens = << >>
    /\ idx = 0
    /\ terminal_id = NONE
    /\ elapsed = 0
    /\ last = NoStep
    /\ execution_states = EmptyDict
    /\ call = NoCall

\* convert_workflow_to_bpmn, then BPMNExecutionEngine.__init__
Convert ==
    /\ pc = "convert"
    /\ LET r == convert_workflow_to_bpmn(workflow_data)
       IN  IF r.error # NoError
           THEN /\ pc' = "conversion_error"
                /\ last' = [token |-> 0, element |-> r.error.id, op |-> "convert",
                             exc |-> r.error.kind]
                /\ UNCHANGED <<process, variables>>
           ELSE /\ pc' = "start"
                /\ process' = r.process
                /\ variables' = r.process.process_variables
                /\ UNCHANGED last
    /\ UNCHANGED <<workflow_data, tokens, element_states, terminal_mappings, terminals,
                   active_tokens, idx, terminal_id, elapsed>>
    /\ UNCHANGED registry

\* BPMNExecutionEngine.__init__ on a definition built by the caller
Construct ==
    /\ pc = "construct"
    /\ process' = workflow_data.definition
    /\ variables' = workflow_data.definition.process_variables
    /\ pc' = "start"
    /\ UNCHANGED <<workflow_data, tokens, element_states, terminal_mappings, terminals,
                   active_tokens, idx, terminal_id, elapsed, last>>
    /\ UNCHANGED registry

\* execute() up to the while loop: the initial token, moved off the start event
Startup ==
    /\ pc = "start"
    /\ LET start_events == get_start_events(process)
           start_event == start_events[1]
           initial == << Token(1, start_event.id, EmptyDict, 0) >>
           outgoing_flows == get_outgoing_flows(process, start_event.id)
           mv == move_token(initial, 1, outgoing_flows[1])
       IN  IF start_events = << >>
           THEN pc' = "value_error" /\ UNCHANGED tokens
           ELSE IF outgoing_flows = << >>
           THEN pc' = "loop" /\ tokens' = initial
           ELSE IF mv.exc # NONE
           THEN pc' = "value_error" /\ tokens' = initial
           ELSE pc' = "loop" /\ tokens' = mv.tokens
    /\ UNCHANGED <<workflow_data, process, variables, element_states, terminal_mappings,
                   terminals, active_tokens, idx, terminal_id, elapsed, last>>
    /\ UNCHANGED registry

\* while self.instance.get_active_tokens(): take the snapshot of the pass
LoopEnter ==
    /\ pc = "loop"
    /\ get_active_tokens(tokens) # << >>
    /\ active_tokens' = get_active_tokens(tokens)
    /\ idx' = 1
    /\ pc' = "pass"
    /\ UNCHANGED <<workflow_data, process, variables, tokens, element_states,
                   terminal_mappings, terminals, terminal_id, elapsed, last>>
    /\ UNCHANGED registry

\* the while condition is false: return self.instance
LoopExit ==
    /\ pc = "loop"
    /\ get_active_tokens(tokens) = << >>
    /\ pc' = "done"
    /\ UNCHANGED <<workflow_data, process, variables, tokens, element_states,
                   terminal_mappings, terminals, active_tokens, idx, terminal_id,
                   elapsed, last>>
    /\ UNCHANGED registry

\* the token and the element of the step the for loop is at
CurToken == active_tokens[idx]

CurElement == get_element(process, tokens[CurToken].current_element_id)

\* The step of the current token returned or was caught: record its outcome and
\* go on with the next token of the snapshot (await asyncio.sleep(0.1)).
FinishStep(out) ==
    /\ tokens' = out.tokens
    /\ element_states' = out.element_states
    /\ last' = [token |-> CurToken, element |-> tokens[CurToken].current_element_id,
                op |-> Handler(CurElement), exc |-> out.exc]
    /\ idx' = idx + 1
    /\ pc' = IF idx + 1 > Len(active_tokens) THEN "loop" ELSE "pass"

\* What the step of a token at the element leaves in a variables dict: a
\* ScriptTask's eval may change a list bound in it in place. The dict of the
\* instance is a shallow copy of the definition's, so both hold the same list.
ScriptEffect(element, vs) ==
    IF element.type = SCRIPT_TASK THEN EvalEffect(element.script, vs) ELSE vs

\* for token in active_tokens: await self._execute_token(token), for every
\* element but a ServiceTask
StepToken ==
    /\ pc = "pass"
    /\ CurElement.type # SERVICE_TASK
    /\ Len(execute_token(tokens, element_states, CurToken).tokens) <= MaxTokens
    /\ FinishStep(execute_token(tokens, element_states, CurToken))
    /\ variables' = ScriptEffect(CurElement, variables)
    /\ process' = [process EXCEPT
                      !.process_variables = ScriptEffect(CurElement, @)]
    /\ UNCHANGED <<workflow_data, terminal_mappings, terminals,
                   active_tokens, terminal_id, elapsed>>
    /\ UNCHANGED registry

\* _execute_token at a ServiceTask, up to the first await of the completion
\* poll (or to the end of the step when the task does not wait or raises)
ServiceTaskStart ==
    /\ pc = "pass"
    /\ CurElement.type = SERVICE_TASK
    /\ LET task == CurElement
           t == CurToken
           running == DictSet(element_states, task.id, "running")
           rendered == RenderedTask(tokens, t, task)
           tid == TermId(Cardinality(DOMAIN terminals) + 1)
       IN  IF ~rendered.ok
           THEN /\ FinishStep(HandleException(
                        Outcome(tokens, running, "template_error"), t, task))
                /\ UNCHANGED <<terminal_mappings, terminals, terminal_id, elapsed>>
           ELSE /\ Cardinality(DOMAIN terminals) < MaxTerminals
                /\ \E fault \in TerminalFaults :
                     \/ /\ fault = "create"
                        /\ FinishStep(HandleException(
                               Outcome(tokens, running, "terminal_create_failed"), t, task))
                        /\ UNCHANGED <<terminal_mappings, terminals, terminal_id, elapsed>>
                     \/ /\ fault = "send"
                        /\ terminals' = create_terminal(terminals)
                        /\ terminal_mappings' = DictSet(terminal_mappings, task.id, tid)
                        /\ FinishStep(HandleException(
                               Outcome(tokens, running, "terminal_send_failed"), t, task))
                        /\ UNCHANGED <<terminal_id, elapsed>>
                     \/ /\ fault = "none"
                        /\ terminals' = CreateAndSend(terminals, rendered.value)
                        /\ terminal_mappings' = DictSet(terminal_mappings, task.id, tid)
                        /\ IF Truthy(task.wait_for_completion)
                           THEN /\ pc' = "poll"
                                /\ terminal_id' = tid
                                /\ elapsed' = 0
                                /\ element_states' = running
                                /\ UNCHANGED <<tokens, idx, last>>
                           ELSE /\ FinishStep(HandleException(
                                        service_task_spawned(tokens, running, t, task, tid),
                                        t, task))
                                /\ UNCHANGED <<terminal_id, elapsed>>
    /\ UNCHANGED <<workflow_data, process, variables, active_tokens>>
    /\ UNCHANGED registry

\* one iteration of the poll loop: the terminal service is asked for the status
Polling ==
    /\ pc = "poll"
    /\ PollContinues(elapsed, CurElement.timeout)

\* status == "COMPLETED": fetch the output, send /exit (which may raise),
\* finish the task
PollCompleted ==
    /\ Polling
    /\ \/ /\ \E output \in Outputs :
               FinishStep(HandleException(
                   service_task_completed(tokens, element_states, CurToken, CurElement,
                                          output),
                   CurToken, CurElement))
          /\ terminals' = send_direct_input(get_terminal_info(terminals, terminal_id),
                                            terminal_id, "/exit")
       \/ /\ FinishStep(HandleException(
                 Outcome(tokens, element_states, "terminal_send_failed"),
                 CurToken, CurElement))
          /\ terminals' = get_terminal_info(terminals, terminal_id)
    /\ UNCHANGED <<workflow_data, process, variables, terminal_mappings, active_tokens,
                   terminal_id, elapsed>>
    /\ UNCHANGED registry

\* status == "ERROR": RuntimeError, caught by _execute_token
PollError ==
    /\ Polling
    /\ FinishStep(HandleException(
           Outcome(tokens, element_states, "terminal_error"), CurToken, CurElement))
    /\ terminals' = get_terminal_info(terminals, terminal_id)
    /\ UNCHANGED <<workflow_data, process, variables, terminal_mappings, active_tokens,
                   terminal_id, elapsed>>
    /\ UNCHANGED registry

\* get_terminal_info returned nothing: RuntimeError, caught by _execute_token
PollNotFound ==
    /\ Polling
    /\ FinishStep(HandleException(
           Outcome(tokens, element_states, "terminal_not_found"), CurToken, CurElement))
    /\ terminals' = get_terminal_info(terminals, terminal_id)
    /\ UNCHANGED <<workflow_data, process, variables, terminal_mappings, active_tokens,
                   terminal_id, elapsed>>
    /\ UNCHANGED registry

\* any other status: await asyncio.sleep(check_interval); elapsed += check_interval
PollRunning ==
    /\ Polling
    /\ elapsed' = elapsed + CheckInterval
    /\ terminals' = get_terminal_info(terminals, terminal_id)
    /\ UNCHANGED <<workflow_data, process, variables, tokens, element_states,
                   terminal_mappings, pc, active_tokens, idx, terminal_id, last>>
    /\ UNCHANGED registry

\* the poll loop ended: TimeoutError, caught by _execute_token
PollTimeout ==
    /\ pc = "poll"
    /\ ~PollContinues(elapsed, CurElement.timeout)
    /\ FinishStep(HandleException(
           Outcome(tokens, element_states, "timeout"), CurToken, CurElement))
    /\ UNCHANGED <<workflow_data, process, variables, terminal_mappings, terminals,
                   active_tokens, terminal_id, elapsed>>
    /\ UNCHANGED registry

Next ==
    \/ Convert
    \/ Construct
    \/ Startup
    \/ LoopEnter
    \/ LoopExit
    \/ StepToken
    \/ ServiceTaskStart
    \/ PollCompleted
    \/ PollError
    \/ PollNotFound
    \/ PollRunning
    \/ PollTimeout

Spec == Init /\ [][Next]_vars

\* the steps of execute()
Execute ==
    \/ Startup
    \/ LoopEnter
    \/ LoopExit
    \/ StepToken
    \/ ServiceTaskStart
    \/ PollCompleted
    \/ PollError
    \/ PollNotFound
    \/ PollRunning
    \/ PollTimeout

\* execute() is one coroutine that the event loop keeps running: every sleep
\* returns and every enabled step of execute() is eventually taken.
FairSpec == Spec /\ WF_vars(Execute)

\* ------------------------------------------- execution-state registry
\* the session names, workflow ids, node ids, node statuses and terminal ids
\* the registry is called with
Sessions == {"s1", "s2"}

WorkflowIds == {"w1", "w2"}

RegistryNodes == {"n1", "n2"}

NodeStatuses == {"running", "completed"}

TerminalIds == {NONE, "t1"}

\* WorkflowExecutionState.__init__
WorkflowExecutionState(workflow_id, session_name) ==
    [workflow_id |-> workflow_id, session_name |-> session_name, status |-> "idle",
     current_node_id |-> NONE, node_states |-> EmptyDict,
     spawned_terminals |-> EmptyDict]

\* _execution_states.get(session_name): << >> for None, else << the state >>
get_execution_state(states, session_name) ==
    IF session_name \in DOMAIN states THEN << states[session_name] >> ELSE << >>

create_execution_state(states, session_name, workflow_id) ==
    DictSet(states, session_name, WorkflowExecutionState(workflow_id, session_name))

\* the cleanup that empties the registry
cleanup_execution_state_all(states, session_name) ==
    IF session_name \in DOMAIN states THEN EmptyDict ELSE states

cleanup_execution_state(states, session_name) ==
    IF session_name \in DOMAIN states
    THEN [k \in DOMAIN states \ {session_name} |-> states[k]]
    ELSE states

\* output and error are passed as None
update_node_state(states, session_name, node_id, status, tid) ==
    LET state == get_execution_state(states, session_name)
        node_state == [status |-> status, terminal_id |-> tid,
                       output |-> NONE, error |-> NONE]
    IN  IF state = << >> THEN states
        ELSE [states EXCEPT
                ![session_name].node_states = DictSet(@, node_id, node_state),
                ![session_name].spawned_terminals =
                    IF Truthy(tid) THEN DictSet(@, node_id, tid) ELSE @]

CreateExecutionState ==
    /\ \E s \in Sessions, w \in WorkflowIds :
         /\ execution_states' = create_execution_state(execution_states, s, w)
         /\ call' = [NoCall EXCEPT !.op = "create_execution_state",
                                   !.session_name = s, !.workflow_id = w]
    /\ UNCHANGED engine

UpdateNodeState ==
    /\ \E s \in Sessions, n \in RegistryNodes, st \in NodeStatuses, tid \in TerminalIds :
         /\ execution_states' = update_node_state(execution_states, s, n, st, tid)
         /\ call' = [NoCall EXCEPT !.op = "update_node_state", !.session_name = s,
                                   !.node_id = n, !.status = st, !.terminal_id = tid]
    /\ UNCHANGED engine

CleanupExecutionState ==
    /\ \E s \in Sessions :
         /\ execution_states' = cleanup_execution_state(execution_states, s)
         /\ call' = [NoCall EXCEPT !.op = "cleanup_execution_state",
                                   !.session_name = s]
    /\ UNCHANGED engine

\* the module as imported: an empty registry; no engine is running
RegistryInit ==
    /\ workflow_data = [id |-> NONE, definition |-> NoProcess]
    /\ process = NoProcess
    /\ variables = EmptyDict
    /\ tokens = << >>
    /\ element_states = EmptyDict
    /\ terminal_mappings = EmptyDict
    /\ terminals = EmptyDict
    /\ pc = "idle"
    /\ active_tokens = << >>
    /\ idx = 0
    /\ terminal_id = NONE
    /\ elapsed = 0
    /\ last = NoStep
    /\ execution_states = EmptyDict
    /\ call = NoCall

RegistryNext ==
    \/ CreateExecutionState
    \/ UpdateNodeState
    \/ CleanupExecutionState

RegistrySpec == RegistryInit /\ [][RegistryNext]_vars

\* ---------------------------------------------------------------- claims
\* A transition in which the step of the current token ends (it returned or
\* its exception was caught); the token and element of that step are CurToken
\* and CurElement of the state before.
StepEnds == pc \in {"pass", "poll"} /\ idx' = idx + 1

\* the number of tokens positioned at an element
CountAt(element_id) ==
    Cardinality({ i \in 1..Len(tokens) : tokens[i].current_element_id = element_id })

\* the number of sequence flows that enter an element
IncomingCount(element_id) ==
    Cardinality({ i \in 1..Len(process.sequence_flows) :
                    process.sequence_flows[i].target_ref = element_id })

IsGateway(element) ==
    element.type \in {EXCLUSIVE_GATEWAY, PARALLEL_GATEWAY, INCLUSIVE_GATEWAY}

\* C1: a token stepped at a Converging gateway with K incoming flows changes
\* position only if at least K tokens are positioned at the gateway; with
\* fewer than K there it becomes Waiting and stays where it is.
JoinBarrier ==
    [][ (StepEnds /\ IsGateway(CurElement) /\ CurElement.direction = CONVERGING) =>
          LET t == CurToken
              g == CurElement.id
          IN  /\ tokens'[t].current_element_id # g => CountAt(g) >= IncomingCount(g)
              /\ CountAt(g) < IncomingCount(g) =>
                   /\ tokens'[t].state = WAITING
                   /\ tokens'[t].current_element_id = g ]_vars

\* C1 witness: a join step left its token Waiting with K-1 tokens at a
\* gateway of K >= 2 incoming flows.
JoinBarrierWitness ==
    /\ last.op = "join"
    /\ tokens[last.token].state = WAITING
    /\ tokens[last.token].current_element_id = last.element
    /\ IncomingCount(last.element) >= 2
    /\ CountAt(last.element) = IncomingCount(last.element) - 1

ParallelSplit ==
    [][ (StepEnds /\ CurElement.type = PARALLEL_GATEWAY
           /\ CurElement.direction = DIVERGING
           /\ get_outgoing_flows(process, CurElement.id) # << >>) =>
          LET t == CurToken
              out == get_outgoing_flows(process, CurElement.id)
          IN  /\ Len(tokens') = Len(tokens) + Len(out)
              /\ \A k \in 1..Len(out) :
                   /\ tokens'[Len(tokens) + k].state = ACTIVE
                   /\ tokens'[Len(tokens) + k].parent_token_id = tokens[t].id
                   /\ tokens'[Len(tokens) + k].current_element_id = out[k].target_ref
              /\ tokens'[t].state = COMPLETED ]_vars

\* C3 witness: a parallel split of three outgoing flows has just been stepped
\* and its three children exist.
ParallelSplitWitness ==
    /\ last.op = "and_split"
    /\ Len(get_outgoing_flows(process, last.element)) = 3
    /\ Cardinality({ i \in 1..Len(tokens) :
                       tokens[i].parent_token_id = last.token }) = 3
    /\ tokens[last.token].state = COMPLETED

\* the elements the flows lead to from a set of elements
Successors(p, S) ==
    { p.sequence_flows[i].target_ref :
        i \in { j \in 1..Len(p.sequence_flows) : p.sequence_flows[j].source_ref \in S } }

RECURSIVE ReachableFrom(_, _)
ReachableFrom(p, S) ==
    IF Successors(p, S) \subseteq S THEN S ELSE ReachableFrom(p, S \cup Successors(p, S))

ElementIds(p) == { p.elements[i].id : i \in 1..Len(p.elements) }

\* exactly one StartEvent, and an EndEvent reachable from it
OneStartEndReachable(p) ==
    /\ Len(get_start_events(p)) = 1
    /\ \E e \in ReachableFrom(p, {get_start_events(p)[1].id}) :
         get_element(p, e).type = END_EVENT

Acyclic(p) == \A e \in ElementIds(p) : e \notin ReachableFrom(p, Successors(p, {e}))

\* every exclusive gateway's default_flow is unset, names no flow, or names one
\* of the gateway's own outgoing flows
DefaultsAreOwnFlows(p) ==
    \A i \in 1..Len(p.elements) :
      LET f == get_sequence_flow(p, p.elements[i].default_flow)
      IN  f # NoFlow => f.source_ref = p.elements[i].id

\* C4: for every definition with exactly one StartEvent and an EndEvent
\* reachable from it, execute() eventually returns (no token is Active).
ExecuteTerminates ==
    (pc = "start" /\ OneStartEndReachable(process)) ~> (pc = "done")

\* C4 as amended: the same for every definition that is also acyclic and whose
\* exclusive gateways default to their own outgoing flows.
AcyclicExecuteTerminates ==
    (pc = "start" /\ OneStartEndReachable(process) /\ Acyclic(process)
       /\ DefaultsAreOwnFlows(process))
      ~> (pc = "done" /\ get_active_tokens(tokens) = << >>)

\* C4 witness: execute() returned on an acyclic definition after a split.
AcyclicExecuteTerminatesWitness ==
    /\ pc = "done"
    /\ OneStartEndReachable(process)
    /\ Acyclic(process)
    /\ DefaultsAreOwnFlows(process)
    /\ Len(tokens) > 1

\* C5: when a token's step raises, that token is Failed with the error
\* recorded and its element "failed", no other token changes, and the loop
\* goes on with the next token of the pass; no part of a ServiceTask step
\* (start, polls) changes another token.
FailureContained ==
    [][ /\ (StepEnds /\ last'.exc # NONE) =>
             LET t == CurToken
                 e == tokens[t].current_element_id
             IN  /\ tokens'[t].state = FAILED
                 /\ tokens'[t].error = last'.exc
                 /\ e \in DOMAIN element_states'
                 /\ element_states'[e] = "failed"
                 /\ Len(tokens') = Len(tokens)
                 /\ \A i \in 1..Len(tokens) : i # t => tokens'[i] = tokens[i]
                 /\ active_tokens' = active_tokens
                 /\ pc' = IF idx < Len(active_tokens) THEN "pass" ELSE "loop"
        /\ (pc = "poll" \/ pc' = "poll") =>
             /\ Len(tokens') = Len(tokens)
             /\ \A i \in 1..Len(tokens) : i # CurToken => tokens'[i] = tokens[i] ]_vars

\* C5 witness: a waited ServiceTask timed out, its token is Failed, and another
\* token of the same pass is still Active and about to be stepped.
FailureContainedWitness ==
    /\ last.exc = "timeout"
    /\ tokens[last.token].state = FAILED
    /\ tokens[last.token].error = "timeout"
    /\ element_states[last.element] = "failed"
    /\ pc = "pass"
    /\ tokens[CurToken].state = ACTIVE

\* C6: a waited ServiceTask does not block its siblings: once a full poll
\* interval has elapsed inside the completion poll, no token of the pass that
\* is Active is still waiting for its step.
SiblingsSteppedDuringPoll ==
    (pc = "poll" /\ elapsed >= CheckInterval) =>
      ~ \E j \in (idx + 1)..Len(active_tokens) : tokens[active_tokens[j]].state = ACTIVE

\* C7: a waited ServiceTask times out when the accumulated wait equals its
\* timeout T exactly.
TimeoutExact ==
    [][ (StepEnds /\ last'.exc = "timeout") => elapsed = CurElement.timeout ]_vars

\* C7 as amended: it times out when the accumulated wait is the smallest
\* multiple of the 2-second interval that is >= T (T itself when T is even):
\* never before T, less than one interval after T, and at that point no
\* further poll is made.
TimeoutAtNextInterval ==
    [][ /\ (StepEnds /\ last'.exc = "timeout") =>
             /\ elapsed >= CurElement.timeout
             /\ elapsed < CurElement.timeout + CheckInterval
             /\ elapsed % CheckInterval = 0
        /\ (pc = "poll" /\ elapsed >= CurElement.timeout) =>
             /\ StepEnds
             /\ last'.exc = "timeout"
             /\ terminals' = terminals ]_vars

\* C7 witness: a task with timeout 3 has just timed out after 4 seconds.
TimeoutAtNextIntervalWitness ==
    /\ last.exc = "timeout"
    /\ get_element(process, last.element).timeout = 3
    /\ elapsed = 4
    /\ tokens[last.token].state = FAILED

\* C8: a Waiting token changes state only to Active or to Failed, never
\* directly to Completed.
WaitingOnlyToActiveOrFailed ==
    [][ \A i \in 1..Len(tokens) :
          tokens[i].state = WAITING => tokens'[i].state \in {WAITING, ACTIVE, FAILED} ]_vars

\* C8 as amended: a Waiting token changes state only to Completed, and only
\* when the step of another token at the Converging gateway it is positioned
\* on satisfies the barrier; no step takes a Waiting token to Active or Failed.
WaitingOnlyConsumedByJoin ==
    [][ \A i \in 1..Len(tokens) :
          (tokens[i].state = WAITING /\ tokens'[i].state # WAITING) =>
            /\ tokens'[i].state = COMPLETED
            /\ StepEnds
            /\ CurToken # i
            /\ IsGateway(CurElement)
            /\ CurElement.direction = CONVERGING
            /\ tokens[i].current_element_id = CurElement.id
            /\ CountAt(CurElement.id) >= IncomingCount(CurElement.id) ]_vars

\* C8 witness: a join fired in a pass whose snapshot held only the firing
\* token, consuming a token that had been Waiting at the gateway.
WaitingOnlyConsumedByJoinWitness ==
    /\ last.op = "join"
    /\ active_tokens = << last.token >>
    /\ tokens[last.token].current_element_id # last.element
    /\ \E i \in 1..Len(tokens) :
         /\ i # last.token
         /\ tokens[i].current_element_id = last.element
         /\ tokens[i].state = COMPLETED

\* the flows of a sequence whose condition evaluates truthy in the context of
\* variables merged with the data
TruthyFlows(flows, data) ==
    { i \in 1..Len(flows) :
        /\ flows[i].condition_expression \notin {NONE, ""}
        /\ evaluate(flows[i].condition_expression, DictUpdate(variables, data)).ok
        /\ Truthy(evaluate(flows[i].condition_expression,
                           DictUpdate(variables, data)).value) }

\* the flows of a sequence whose condition raises when evaluated
RaisingFlows(flows, data) ==
    { i \in 1..Len(flows) :
        /\ flows[i].condition_expression \notin {NONE, ""}
        /\ ~evaluate(flows[i].condition_expression, DictUpdate(variables, data)).ok }

XorSplitStep ==
    /\ StepEnds
    /\ CurElement.type = EXCLUSIVE_GATEWAY
    /\ CurElement.direction = DIVERGING
    /\ get_outgoing_flows(process, CurElement.id) # << >>

\* C9: at a Diverging exclusive gateway the token moves onto the first
\* outgoing flow, in declaration order, whose condition is truthy (no
\* condition before it raising); that flow carries a condition, the token
\* stays Active and no token is created.
XorSelectsFirstTruthy ==
    [][ XorSplitStep =>
          LET t == CurToken
              out == get_outgoing_flows(process, CurElement.id)
              truthy == TruthyFlows(out, tokens[t].data)
              k == CHOOSE i \in truthy : \A j \in truthy : i <= j
          IN  (truthy # {} /\ \A j \in RaisingFlows(out, tokens[t].data) : j > k) =>
                /\ tokens'[t].current_element_id = out[k].target_ref
                /\ tokens'[t].state = ACTIVE
                /\ out[k].condition_expression # NONE
                /\ Len(tokens') = Len(tokens) ]_vars

\* C9 witness: with conditions [x, -, y, z] = [false, -, true, true] the token
\* has moved onto the flow of y, past the unconditional flow.
XorSelectsFirstTruthyWitness ==
    /\ last.op = "xor_split"
    /\ last.exc = NONE
    /\ workflow_data.id = "xor"
    /\ variables = [x |-> "False", y |-> "True", z |-> "True"]
    /\ tokens[last.token].current_element_id = get_sequence_flow(process, "f3").target_ref
    /\ Len(tokens) = 1

\* no condition of the current gateway's outgoing flows is truthy or raises
NoConditionMatches ==
    LET out == get_outgoing_flows(process, CurElement.id)
    IN  /\ TruthyFlows(out, tokens[CurToken].data) = {}
        /\ RaisingFlows(out, tokens[CurToken].data) = {}

\* C10: when no condition is truthy the token advances onto the gateway's
\* default_flow if one is set, otherwise onto the first outgoing flow, and is
\* neither failed nor parked.
XorFallback ==
    [][ (XorSplitStep /\ NoConditionMatches) =>
          LET t == CurToken
              out == get_outgoing_flows(process, CurElement.id)
              d == CurElement.default_flow
          IN  /\ tokens'[t].state = ACTIVE
              /\ last'.exc = NONE
              /\ IF d \notin {NONE, ""}
                 THEN \E i \in 1..Len(process.sequence_flows) :
                        /\ process.sequence_flows[i].id = d
                        /\ tokens'[t].current_element_id =
                             process.sequence_flows[i].target_ref
                 ELSE tokens'[t].current_element_id = out[1].target_ref ]_vars

\* C10 as amended: ... onto the gateway's default_flow if one is set and names
\* a sequence flow of the definition, otherwise (unset, or naming no flow) onto
\* the first outgoing flow; the token is neither failed nor parked.
XorFallbackResolved ==
    [][ (XorSplitStep /\ NoConditionMatches) =>
          LET t == CurToken
              out == get_outgoing_flows(process, CurElement.id)
              d == CurElement.default_flow
              named == { i \in 1..Len(process.sequence_flows) :
                           process.sequence_flows[i].id = d }
          IN  /\ tokens'[t].state = ACTIVE
              /\ last'.exc = NONE
              /\ Len(tokens') = Len(tokens)
              /\ IF d \notin {NONE, ""} /\ named # {}
                 THEN \E i \in named :
                        tokens'[t].current_element_id =
                          process.sequence_flows[i].target_ref
                 ELSE tokens'[t].current_element_id = out[1].target_ref ]_vars

\* C10 witness: all conditions false and default_flow f2 set: the token is on
\* the target of f2, which is not the first outgoing flow.
XorFallbackResolvedWitness ==
    /\ last.op = "xor_split"
    /\ last.exc = NONE
    /\ workflow_data.id = "xor_default"
    /\ variables = [x |-> "False", y |-> "False", z |-> "False"]
    /\ tokens[last.token].current_element_id = get_sequence_flow(process, "f2").target_ref
    /\ tokens[last.token].state = ACTIVE

OrSplitStep ==
    /\ StepEnds
    /\ CurElement.type = INCLUSIVE_GATEWAY
    /\ CurElement.direction = DIVERGING
    /\ get_outgoing_flows(process, CurElement.id) # << >>

\* the positions of the current gateway's outgoing flows that count as active:
\* the condition is truthy, or there is none and the flow is the default flow
ActivePositions ==
    LET out == get_outgoing_flows(process, CurElement.id)
    IN  { k \in 1..Len(out) :
            IF out[k].condition_expression \notin {NONE, ""}
            THEN k \in TruthyFlows(out, tokens[CurToken].data)
            ELSE out[k].id = CurElement.default_flow }

\* no condition of the current gateway's outgoing flows raises
NoConditionRaises ==
    RaisingFlows(get_outgoing_flows(process, CurElement.id), tokens[CurToken].data) = {}

\* the tokens the step has added
NewTokens == (Len(tokens) + 1)..Len(tokens')

\* C11: a step at a Diverging inclusive gateway completes the stepped token
\* and creates one Active child per active flow (condition truthy, or no
\* condition and id equal to default_flow), in flow order, each on its flow's
\* target; when no flow is active it creates one child per outgoing flow.
InclusiveSplit ==
    [][ (OrSplitStep /\ NoConditionRaises) =>
          LET t == CurToken
              out == get_outgoing_flows(process, CurElement.id)
              taken == IF ActivePositions = {} THEN 1..Len(out) ELSE ActivePositions
          IN  /\ tokens'[t].state = COMPLETED
              /\ Len(tokens') = Len(tokens) + Cardinality(taken)
              /\ \A k \in taken :
                   LET c == Len(tokens) + Cardinality({ m \in taken : m <= k })
                   IN  /\ tokens'[c].state = ACTIVE
                       /\ tokens'[c].parent_token_id = tokens[t].id
                       /\ tokens'[c].current_element_id = out[k].target_ref
                       /\ tokens'[c].data = tokens[t].data ]_vars

\* C11 witness: flows [x, unconditional default, z] with x true and z false:
\* two children, on the flow of x and on the default flow, none on the flow of z.
InclusiveSplitWitness ==
    /\ last.op = "or_split"
    /\ last.exc = NONE
    /\ get_element(process, last.element).default_flow = "f2"
    /\ variables = [x |-> "True", y |-> "False", z |-> "False"]
    /\ Len(tokens) = 3
    /\ tokens[2].current_element_id = "ea"
    /\ tokens[3].current_element_id = "eb"
    /\ tokens[1].state = COMPLETED

\* C12: at a Diverging inclusive gateway every outgoing flow without a
\* condition receives a child token, whatever the other conditions give.
UnconditionalFlowsAlwaysTaken ==
    [][ (OrSplitStep /\ NoConditionRaises) =>
          LET out == get_outgoing_flows(process, CurElement.id)
          IN  \A k \in 1..Len(out) :
                out[k].condition_expression \in {NONE, ""} =>
                  \E c \in NewTokens :
                    tokens'[c].current_element_id = out[k].target_ref ]_vars

\* C12 as amended: an outgoing flow without a condition receives a child
\* exactly when its id equals the gateway's default_flow or no flow of the
\* gateway is active (then every outgoing flow receives one).
UnconditionalFlowTakenAsDefaultOrFallback ==
    [][ (OrSplitStep /\ NoConditionRaises) =>
          LET out == get_outgoing_flows(process, CurElement.id)
          IN  \A k \in 1..Len(out) :
                out[k].condition_expression \in {NONE, ""} =>
                  ((\E c \in NewTokens :
                      tokens'[c].current_element_id = out[k].target_ref)
                   <=> (out[k].id = CurElement.default_flow \/ ActivePositions = {})) ]_vars

\* C12 witness: flows [x, unconditional, z] of a converted gateway (no
\* default_flow) with x true: one child only, none on the unconditional flow.
UnconditionalFlowTakenAsDefaultOrFallbackWitness ==
    /\ last.op = "or_split"
    /\ last.exc = NONE
    /\ workflow_data.id = "or3"
    /\ variables = [x |-> "True", y |-> "False", z |-> "False"]
    /\ Len(tokens) = 2
    /\ tokens[2].current_element_id = "ea"
    /\ \A i \in 1..Len(tokens) : tokens[i].current_element_id # "eb"

\* the tokens positioned at an element
TokensAt(element_id) ==
    { i \in 1..Len(tokens) : tokens[i].current_element_id = element_id }

\* the merge of the data of the tokens of a set: for every key, the value of
\* the last token in token order that has the key
MergedData(S) ==
    [k \in UNION { DOMAIN tokens[i].data : i \in S } |->
        LET having == { i \in S : k \in DOMAIN tokens[i].data }
        IN  tokens[CHOOSE i \in having : \A j \in having : j <= i].data[k]]

\* C13: when a token is stepped at a Converging gateway at which at least as
\* many tokens are positioned as the gateway has incoming flows, its data
\* becomes the merge of the data of all tokens there (the later token wins a
\* key), every other token there is Completed, and the stepped token is Active
\* on the target of the first outgoing flow (Completed in place if the gateway
\* has none); no token is created.
JoinFires ==
    [][ (StepEnds /\ IsGateway(CurElement) /\ CurElement.direction = CONVERGING
           /\ CountAt(CurElement.id) >= IncomingCount(CurElement.id)) =>
          LET t == CurToken
              g == CurElement.id
              out == get_outgoing_flows(process, g)
          IN  /\ tokens'[t].data = MergedData(TokensAt(g))
              /\ \A i \in TokensAt(g) \ {t} : tokens'[i].state = COMPLETED
              /\ IF out # << >>
                 THEN /\ tokens'[t].state = ACTIVE
                      /\ tokens'[t].current_element_id = out[1].target_ref
                 ELSE /\ tokens'[t].state = COMPLETED
                      /\ tokens'[t].current_element_id = g
              /\ Len(tokens') = Len(tokens) ]_vars

\* C13 witness: the tokens of two script tasks that stored different outputs
\* met at the join; the earlier one fired it and carries the later one's output.
JoinFiresWitness ==
    /\ last.op = "join"
    /\ workflow_data.id = "forkjoin"
    /\ variables["x"] # variables["y"]
    /\ last.token = 2
    /\ tokens[2].current_element_id = "end"
    /\ tokens[2].state = ACTIVE
    /\ tokens[2].data["output"] = variables["y"]
    /\ tokens[3].state = COMPLETED
    /\ tokens[3].current_element_id = "join"

\* the tokens of the snapshot stepped before the current one in this pass
SteppedEarlier == { active_tokens[j] : j \in 1..(idx - 1) }

\* The tokens created during the current pass: the children of the tokens
\* stepped earlier in it (a token that has split is Completed and in no later
\* snapshot).
FreshTokens ==
    { i \in 1..Len(tokens) : tokens[i].parent_token_id \in SteppedEarlier }

JoinStep == StepEnds /\ IsGateway(CurElement) /\ CurElement.direction = CONVERGING

SplitStep ==
    /\ StepEnds
    /\ CurElement.type \in {PARALLEL_GATEWAY, INCLUSIVE_GATEWAY}
    /\ CurElement.direction # CONVERGING

IsLinear(p) ==
    /\ Len(p.elements) = 3
    /\ p.elements[1].type = START_EVENT
    /\ p.elements[2].type = SERVICE_TASK
    /\ p.elements[3].type = END_EVENT
    /\ Len(p.sequence_flows) = 2
    /\ p.sequence_flows[1].source_ref = p.elements[1].id
    /\ p.sequence_flows[1].target_ref = p.elements[2].id
    /\ p.sequence_flows[2].source_ref = p.elements[2].id
    /\ p.sequence_flows[2].target_ref = p.elements[3].id

\* the instance a linear definition is to end with
LinearResult ==
    /\ Len(process.elements) = 3
    /\ Len(tokens) = 1
    /\ tokens[1].state = COMPLETED
    /\ tokens[1].current_element_id = process.elements[3].id
    /\ DOMAIN element_states = {process.elements[2].id, process.elements[3].id}
    /\ element_states[process.elements[2].id] = "completed"
    /\ element_states[process.elements[3].id] = "completed"
    /\ DOMAIN terminal_mappings = {process.elements[2].id}
    /\ terminal_mappings[process.elements[2].id] = TermId(1)

\* C15: on the converted graph startEvent -> serviceTask -> endEvent, once the
\* first status poll of the task's worker has answered COMPLETED, execute()
\* returns with exactly one token, Completed on the end event, the service
\* task and the end event both "completed", and the worker handle recorded in
\* terminal_mappings for the task.
LinearRoundTrip ==
    (/\ Converted
     /\ IsLinear(process)
     /\ last.op = "service_task"
     /\ last.exc = NONE
     /\ TermId(1) \in DOMAIN terminals
     /\ terminals[TermId(1)].queries = 1)
      ~> (pc = "done" /\ LinearResult)

\* C15 witness: execute() has returned on the linear graph whose worker was
\* sent the rendered template, polled once and then sent /exit.
LinearRoundTripWitness ==
    /\ pc = "done"
    /\ workflow_data.id = "linear"
    /\ IsLinear(process)
    /\ LinearResult
    /\ terminals[TermId(1)] = [inputs |-> << variables["z"], "/exit" >>, queries |-> 1]
    /\ "output" \in DOMAIN tokens[1].data

\* C16: on a definition produced by the converter execute() does not raise,
\* and when it has returned no token is Active: every token is Completed,
\* Failed or Waiting, whatever errors the steps met.
ExecuteReturnsNoActive ==
    Converted =>
      /\ pc # "value_error"
      /\ pc = "done" =>
           \A i \in 1..Len(tokens) : tokens[i].state \in {COMPLETED, FAILED, WAITING}

\* C16 witness: execute() has returned on a converted definition with a
\* Failed token (its service task timed out), a Waiting one and Completed ones.
ExecuteReturnsNoActiveWitness ==
    /\ Converted
    /\ pc = "done"
    /\ \E i \in 1..Len(tokens) : tokens[i].state = FAILED /\ tokens[i].error = "timeout"
    /\ \E i \in 1..Len(tokens) : tokens[i].state = WAITING
    /\ \E i \in 1..Len(tokens) : tokens[i].state = COMPLETED

\* the ids of the nodes of the graph
NodeIds == { workflow_data.nodes[i].id : i \in 1..Len(workflow_data.nodes) }

\* the edges of the graph whose source or target is not the id of a node
BadEdges ==
    { i \in 1..Len(workflow_data.edges) :
        \/ workflow_data.edges[i].source \notin NodeIds
        \/ workflow_data.edges[i].target \notin NodeIds }

\* the graph has a node of the given type
HasNodeOfType(type) ==
    \E i \in 1..Len(workflow_data.nodes) : workflow_data.nodes[i].data.type = type

\* the node type strings the normalization table lists
ListedTypes ==
    { "agent_spawn", "handoff", "assign", "send_message", "serviceTask",
      "xor_split", "xor_join", "exclusiveGateway",
      "and_split", "and_join", "parallelGateway",
      "or_split", "or_join", "inclusiveGateway",
      "startEvent", "endEvent", "scriptTask", "userTask" }

\* the graph has nodes, all of listed types
NodesConvertible ==
    /\ workflow_data.nodes # << >>
    /\ \A i \in 1..Len(workflow_data.nodes) :
         workflow_data.nodes[i].data.type \in ListedTypes

TypeTable(type) ==
    CASE type \in {"agent_spawn", "handoff", "assign", "send_message", "serviceTask"}
            -> SERVICE_TASK
      [] type \in {"xor_split", "xor_join", "exclusiveGateway"} -> EXCLUSIVE_GATEWAY
      [] type \in {"and_split", "and_join", "parallelGateway"} -> PARALLEL_GATEWAY
      [] type \in {"or_split", "or_join", "inclusiveGateway"} -> INCLUSIVE_GATEWAY
      [] type \in {"startEvent", "endEvent", "scriptTask", "userTask"} -> type
      [] OTHER -> NONE

\* C18: node types are normalized exactly by the documented table: in a
\* returned definition every node's element has the type the table gives for
\* the node's type string, and a graph with a node whose type string the table
\* does not list is rejected (the error names the first such node).
NormalizationTable ==
    (Converted /\ pc # "convert") =>
      /\ pc # "conversion_error" =>
           \A i \in 1..Len(workflow_data.nodes) :
             /\ TypeTable(workflow_data.nodes[i].data.type) # NONE
             /\ get_element(process, workflow_data.nodes[i].id).type =
                  TypeTable(workflow_data.nodes[i].data.type)
      /\ (\E i \in 1..Len(workflow_data.nodes) :
            workflow_data.nodes[i].data.type \notin ListedTypes) =>
           /\ pc = "conversion_error"
           /\ process = NoProcess
           /\ last.exc = "node"
           /\ \E i \in 1..Len(workflow_data.nodes) :
                /\ workflow_data.nodes[i].id = last.element
                /\ workflow_data.nodes[i].data.type \notin ListedTypes

\* C18 witness: the graphs with a send_message node and with an or_join node
\* convert to a ServiceTask and an InclusiveGateway; here the latter.
NormalizationTableWitness ==
    /\ pc = "start"
    /\ workflow_data.id = "typed_or_join"
    /\ get_element(process, "n").type = INCLUSIVE_GATEWAY
    /\ get_element(process, "start").type = START_EVENT
    /\ get_element(process, "end").type = END_EVENT

\* C19: in every reachable state every token's current_element_id is the id
\* of an element of the process definition.
TokenPositionValid ==
    \A i \in 1..Len(tokens) : tokens[i].current_element_id \in ElementIds(process)

\* C19 witness: on a converted definition a join has just fired and four
\* tokens rest on four different elements of the definition.
TokenPositionValidWitness ==
    /\ Converted
    /\ last.op = "join"
    /\ Len(tokens) = 4
    /\ Cardinality({ tokens[i].current_element_id : i \in 1..Len(tokens) }) = 4
    /\ \A i \in 1..Len(tokens) : tokens[i].current_element_id \in ElementIds(process)

\* C20: no step removes a token or changes an existing token's id or parent;
\* after the initial token of execute(), tokens are added only by the step of
\* a token at a parallel or inclusive split, so Completed and Failed tokens
\* are still in the instance when execute() returns.
TokensOnlyGrow ==
    [][ /\ Len(tokens') >= Len(tokens)
        /\ \A i \in 1..Len(tokens) :
             /\ tokens'[i].id = tokens[i].id
             /\ tokens'[i].parent_token_id = tokens[i].parent_token_id
        /\ \A c \in NewTokens : tokens'[c].id = c
        /\ (Len(tokens') > Len(tokens) /\ pc # "start") => SplitStep ]_vars

\* C20 witness: execute() has returned after an inclusive split: the consumed
\* parent is still in the instance, Completed at the gateway, with both children.
TokensOnlyGrowWitness ==
    /\ pc = "done"
    /\ workflow_data.id = "or2"
    /\ Len(tokens) = 3
    /\ tokens[1].state = COMPLETED
    /\ get_element(process, tokens[1].current_element_id).type = INCLUSIVE_GATEWAY
    /\ tokens[2].parent_token_id = 1
    /\ tokens[3].parent_token_id = 1

\* after is before with at most the keys written: every other key is kept
WritesOnly(before, after, keys) ==
    /\ DOMAIN before \subseteq DOMAIN after
    /\ DOMAIN after \subseteq DOMAIN before \cup keys
    /\ \A k \in DOMAIN before \ keys : after[k] = before[k]

TaskStep == StepEnds /\ CurElement.type \in {SCRIPT_TASK, SERVICE_TASK}

SharedVariablesReadOnly ==
    [][ /\ pc = "construct" => variables' = process'.process_variables
        /\ pc \in {"start", "loop", "pass", "poll"} =>
             /\ variables' = variables
             /\ process'.process_variables = process.process_variables
        /\ TaskStep => WritesOnly(tokens[CurToken].data, tokens'[CurToken].data,
                                  {"output", "terminal_id"}) ]_vars

\* C23: whenever the main loop is about to step a token of its snapshot, that
\* token is Active; a token an earlier step of the pass has consumed at a join
\* (made Completed) is not stepped.
OnlyActiveTokensStepped ==
    pc = "pass" => tokens[CurToken].state = ACTIVE

\* the tokens positioned at an element that are still Active or Waiting
LiveAt(element_id) ==
    { i \in TokensAt(element_id) : tokens[i].state \in {ACTIVE, WAITING} }

\* C24: a step at a Converging gateway with K incoming flows fires (does not
\* leave its token Waiting) only when at least K tokens that are Active or
\* Waiting are positioned at the gateway; Completed and Failed tokens still
\* positioned there do not count.
JoinCountsLiveTokensOnly ==
    [][ (JoinStep /\ tokens'[CurToken].state # WAITING) =>
          Cardinality(LiveAt(CurElement.id)) >= IncomingCount(CurElement.id) ]_vars

\* Is there a sequence flow of the definition from the one element to the other?
FlowBetween(source_id, target_id) ==
    \E k \in 1..Len(process.sequence_flows) :
        /\ process.sequence_flows[k].source_ref = source_id
        /\ process.sequence_flows[k].target_ref = target_id

\* C25: on every definition the converter accepts, a step that changes the
\* position of a token puts it on the target of a sequence flow whose
\* source_ref is the element the token was on, and the children of a split
\* are put on targets of flows leaving the gateway; exclusive gateways with a
\* default_flow included.
MovesFollowOwnFlows ==
    [][ Converted =>
          /\ \A i \in 1..Len(tokens) :
               tokens'[i].current_element_id # tokens[i].current_element_id =>
                   FlowBetween(tokens[i].current_element_id,
                               tokens'[i].current_element_id)
          /\ SplitStep =>
               \A c \in NewTokens :
                   FlowBetween(tokens[CurToken].current_element_id,
                               tokens'[c].current_element_id) ]_vars

\* C26: when execute() returns on the fork-join definition (start, parallel
\* split, one ScriptTask per branch, Converging parallel gateway with two
\* incoming flows, end) and no task has failed, exactly one token is Completed
\* at the end event, the end event's state is "completed", and no token is
\* Waiting.
ForkJoinEndState ==
    (/\ pc = "done"
     /\ workflow_data.id = "forkjoin"
     /\ \A i \in 1..Len(tokens) : tokens[i].state # FAILED)
       => /\ Cardinality({ i \in TokensAt("end") : tokens[i].state = COMPLETED }) = 1
          /\ "end" \in DOMAIN element_states
          /\ element_states["end"] = "completed"
          /\ \A i \in 1..Len(tokens) : tokens[i].state # WAITING

\* the current token is at a ServiceTask that waits for its worker
WaitedTask ==
    CurElement.type = SERVICE_TASK /\ Truthy(CurElement.wait_for_completion)

\* the exceptions that end a wait before COMPLETED was observed and acted on
WaitFailures ==
    {"terminal_error", "terminal_not_found", "timeout", "terminal_send_failed"}

\* C27: the order of a waited ServiceTask. Rendering precedes the creation of
\* the worker, the creation precedes the entry in terminal_mappings and that
\* the sending of the rendered text (a failure of one step leaves the later
\* ones undone); when the poll begins the element is "running", the worker has
\* received exactly the rendered text and has not been queried; while the poll
\* goes on nothing but queries happens; "/exit" is sent only by the step that
\* observed COMPLETED, and that step stores the output in data["output"], sets
\* the element "completed" and moves the token onto the first outgoing flow,
\* creating no token and touching no other token.
ServiceTaskProtocol ==
    [][ /\ (pc = "pass" /\ WaitedTask /\ pc' = "poll") =>
             LET rendered == RenderedTask(tokens, CurToken, CurElement)
             IN  /\ rendered.ok
                 /\ element_states'[CurElement.id] = "running"
                 /\ terminal_id' \notin DOMAIN terminals
                 /\ DOMAIN terminals' = DOMAIN terminals \cup {terminal_id'}
                 /\ terminals'[terminal_id'] =
                        [inputs |-> << rendered.value >>, queries |-> 0]
                 /\ terminal_mappings'[CurElement.id] = terminal_id'
                 /\ tokens' = tokens
        /\ (pc = "pass" /\ WaitedTask /\ StepEnds) =>
             /\ tokens'[CurToken].state = FAILED
             /\ last'.exc \in
                  {"template_error", "terminal_create_failed", "terminal_send_failed"}
             /\ last'.exc \in {"template_error", "terminal_create_failed"} =>
                  /\ terminals' = terminals
                  /\ terminal_mappings' = terminal_mappings
             /\ last'.exc = "terminal_send_failed" =>
                  \E tid \in DOMAIN terminals' \ DOMAIN terminals :
                      /\ terminals'[tid].inputs = << >>
                      /\ terminal_mappings'[CurElement.id] = tid
        /\ pc = "poll" =>
             LET observed == StepEnds /\ last'.exc \notin WaitFailures
                 flows == get_outgoing_flows(process, CurElement.id)
             IN  /\ WaitedTask
                 /\ terminals'[terminal_id].inputs =
                        IF observed THEN Append(terminals[terminal_id].inputs, "/exit")
                        ELSE terminals[terminal_id].inputs
                 /\ ~StepEnds =>
                        /\ tokens' = tokens
                        /\ element_states' = element_states
                        /\ element_states[CurElement.id] = "running"
                 /\ (StepEnds /\ ~observed) =>
                        /\ tokens'[CurToken].data = tokens[CurToken].data
                        /\ tokens'[CurToken].state = FAILED
                        /\ element_states'[CurElement.id] = "failed"
                 /\ (StepEnds /\ last'.exc = NONE) =>
                        /\ terminals[terminal_id].inputs =
                               << RenderedTask(tokens, CurToken, CurElement).value >>
                        /\ terminals'[terminal_id].queries >= 1
                        /\ DOMAIN tokens'[CurToken].data =
                               DOMAIN tokens[CurToken].data \cup {"output"}
                        /\ tokens'[CurToken].data.output \in Outputs
                        /\ element_states'[CurElement.id] = "completed"
                        /\ Len(tokens') = Len(tokens)
                        /\ \A i \in 1..Len(tokens) : i # CurToken => tokens'[i] = tokens[i]
                        /\ IF flows = << >>
                           THEN /\ tokens'[CurToken].state = COMPLETED
                                /\ tokens'[CurToken].current_element_id = CurElement.id
                           ELSE /\ tokens'[CurToken].state = ACTIVE
                                /\ tokens'[CurToken].current_element_id =
                                       flows[1].target_ref ]_vars

\* C27 witness: a waited ServiceTask with two outgoing flows has completed at
\* its first poll: the worker got the rendered text and then "/exit", and the
\* only token is on the target of the first flow with the output in its data.
ServiceTaskProtocolWitness ==
    /\ workflow_data.id = "svctwoout"
    /\ last.op = "service_task"
    /\ last.exc = NONE
    /\ Len(tokens) = 1
    /\ tokens[1].current_element_id = "ea"
    /\ tokens[1].data.output = "ok"
    /\ element_states["task"] = "completed"
    /\ terminals[terminal_mappings["task"]] =
           [inputs |-> << "True", "/exit" >>, queries |-> 1]

\* the current token is at a ServiceTask that does not wait for its worker
UnwaitedTask ==
    CurElement.type = SERVICE_TASK /\ ~Truthy(CurElement.wait_for_completion)

\* C28: the step of a token at a ServiceTask whose wait_for_completion is
\* false ends without a poll; when nothing raised, it has created one worker,
\* sent it the rendered text, never asked for its status, recorded its handle
\* in the token's data["terminal_id"] and in terminal_mappings, set the
\* element "spawned" and put the token on the target of the first outgoing
\* flow, or completed it where there is none. The status of a worker is only
\* ever asked for by the poll of a waited task, for that task's own worker.
FireAndForget ==
    [][ /\ (pc = "pass" /\ UnwaitedTask) =>
             /\ StepEnds
             /\ pc' # "poll"
             /\ last'.exc = NONE =>
                  LET flows == get_outgoing_flows(process, CurElement.id)
                      tid == terminal_mappings'[CurElement.id]
                  IN  /\ DOMAIN terminals' \ DOMAIN terminals = {tid}
                      /\ terminals'[tid] =
                             [inputs |-> << RenderedTask(tokens, CurToken,
                                                         CurElement).value >>,
                              queries |-> 0]
                      /\ tokens'[CurToken].data =
                             DictSet(tokens[CurToken].data, "terminal_id", tid)
                      /\ element_states'[CurElement.id] = "spawned"
                      /\ Len(tokens') = Len(tokens)
                      /\ IF flows = << >>
                         THEN /\ tokens'[CurToken].state = COMPLETED
                              /\ tokens'[CurToken].current_element_id = CurElement.id
                         ELSE /\ tokens'[CurToken].state = ACTIVE
                              /\ tokens'[CurToken].current_element_id =
                                     flows[1].target_ref
        /\ \A tid \in DOMAIN terminals :
             terminals'[tid].queries # terminals[tid].queries =>
                 pc = "poll" /\ WaitedTask /\ tid = terminal_id ]_vars

\* C28 witness: next to a waited task whose worker has been polled, a
\* fire-and-forget task has just been stepped: its token is already Active on
\* the next element with the handle in its data, the element is "spawned",
\* and its worker holds the text and has never been queried.
FireAndForgetWitness ==
    /\ workflow_data.id = "forksvc"
    /\ last = [token |-> 4, element |-> "ff", op |-> "service_task", exc |-> NONE]
    /\ "svc" \in DOMAIN terminal_mappings
    /\ tokens[4].state = ACTIVE
    /\ tokens[4].current_element_id = "join"
    /\ tokens[4].data.terminal_id = terminal_mappings["ff"]
    /\ element_states["ff"] = "spawned"
    /\ terminals[terminal_mappings["ff"]] = [inputs |-> << "run" >>, queries |-> 0]
    /\ terminals[terminal_mappings["svc"]].queries >= 1

\* the tokens Waiting at a UserTask
ParkedTokens ==
    { i \in 1..Len(tokens) :
        /\ tokens[i].state = WAITING
        /\ get_element(process, tokens[i].current_element_id).type = USER_TASK }

\* C29: the step of a token at a UserTask makes it Waiting where it is, with
\* element state "waiting_for_user", and changes no other token; no step
\* changes a token that is Waiting at a UserTask; and when no token is Active
\* the loop of execute() ends and execute() returns with the tokens as they are.
UserTaskParks ==
    [][ /\ (StepEnds /\ CurElement.type = USER_TASK) =>
             /\ tokens' = [tokens EXCEPT ![CurToken].state = WAITING]
             /\ element_states'[CurElement.id] = "waiting_for_user"
             /\ last'.exc = NONE
        /\ pc \notin {"convert", "construct"} =>
             \A i \in ParkedTokens : tokens'[i] = tokens[i]
        /\ (pc = "loop" /\ get_active_tokens(tokens) = << >>) =>
             pc' = "done" /\ tokens' = tokens ]_vars

\* C29 witness: execute() has returned while the token stepped at the
\* UserTask is still Waiting there, its siblings having completed.
UserTaskParksWitness ==
    /\ pc = "done"
    /\ workflow_data.id = "datafork"
    /\ Len(tokens) = 4
    /\ tokens[4].state = WAITING
    /\ tokens[4].current_element_id = "u"
    /\ element_states["u"] = "waiting_for_user"
    /\ tokens[2].state = COMPLETED
    /\ tokens[3].state = COMPLETED

\* C30: when the rendering of the task_template of a ServiceTask fails (a
\* syntax error or a variable that neither the variables nor the token's data
\* bind), the step ends with the token Failed where it is and the element
\* "failed", and it has created no worker, sent no input and left
\* terminal_mappings as it was.
TemplateFailureBeforeWorker ==
    [][ (/\ pc = "pass"
         /\ CurElement.type = SERVICE_TASK
         /\ ~render_template(CurElement.task_template,
                             Context(variables, tokens[CurToken].data)).ok) =>
          /\ StepEnds
          /\ last'.exc = "template_error"
          /\ tokens' = [tokens EXCEPT ![CurToken].state = FAILED,
                                      ![CurToken].error = "template_error"]
          /\ element_states'[CurElement.id] = "failed"
          /\ terminals' = terminals
          /\ terminal_mappings' = terminal_mappings ]_vars

\* C30 witness: the ServiceTask whose template has a syntax error has been
\* stepped: its token is Failed on it, the element is "failed", and there is
\* neither a worker nor an entry in terminal_mappings.
TemplateFailureBeforeWorkerWitness ==
    /\ workflow_data.id = "badtemplate"
    /\ last.op = "service_task"
    /\ last.exc = "template_error"
    /\ tokens[last.token].state = FAILED
    /\ get_element(process, tokens[last.token].current_element_id).task_template = "{{"
    /\ element_states[last.element] = "failed"
    /\ terminals = EmptyDict
    /\ terminal_mappings = EmptyDict

\* the ids of the StartEvents of a definition
StartEventIds(p) ==
    { p.elements[i].id : i \in { j \in 1..Len(p.elements) :
                                   p.elements[j].type = START_EVENT } }

\* What C31 says of one step: the step of execute() before the main loop
\* leaves exactly one token, Active, with empty data and no parent, on the
\* target of the first outgoing flow of the first StartEvent; no token is
\* stepped at a StartEvent; no StartEvent has an element_states entry; and a
\* token is never on a StartEvent.
StartupDiscipline ==
    /\ (pc = "start" /\ pc' = "loop") =>
         LET start_event == get_start_events(process)[1]
             outgoing_flows == get_outgoing_flows(process, start_event.id)
         IN  /\ outgoing_flows # << >>
             /\ tokens' = << [id |-> 1,
                              current_element_id |-> outgoing_flows[1].target_ref,
                              state |-> ACTIVE, data |-> EmptyDict,
                              parent_token_id |-> 0, error |-> NONE] >>
             /\ element_states' = EmptyDict
    /\ (pc = "pass" /\ CurElement # NoElement) => CurElement.type # START_EVENT
    /\ pc' \in {"loop", "pass", "poll", "done"} =>
         /\ DOMAIN element_states' \cap StartEventIds(process') = {}
         /\ \A i \in 1..Len(tokens') :
              tokens'[i].current_element_id \notin StartEventIds(process')

\* no sequence flow leads to a StartEvent, and the first StartEvent has an
\* outgoing flow
StartEventsOnlyStart(p) ==
    /\ get_start_events(p) # << >>
    /\ get_outgoing_flows(p, get_start_events(p)[1].id) # << >>
    /\ \A k \in 1..Len(p.sequence_flows) :
         p.sequence_flows[k].target_ref \notin StartEventIds(p)

\* C31: execute() creates one initial token with empty data on the first
\* StartEvent and moves it onto the target of that event's first outgoing flow
\* before the main loop; no StartEvent is ever stepped or gets an
\* element_states entry, and no token is on a StartEvent afterwards.
StartupMovesOffStartEvent ==
    [][StartupDiscipline]_vars

\* C31 as amended: the same for the definitions whose first StartEvent has an
\* outgoing flow and in which no sequence flow leads to a StartEvent.
StartupMovesOffStartEventWhenWellFormed ==
    [][ (pc' \in {"loop", "pass", "poll", "done"} /\ StartEventsOnlyStart(process'))
          => StartupDiscipline ]_vars

\* C31 witness: after the step before the main loop of a definition with a
\* parallel split, the only token is Active with empty data on the split, the
\* target of the StartEvent's first flow, and nothing has an element state.
StartupMovesOffStartEventWhenWellFormedWitness ==
    /\ pc = "loop"
    /\ workflow_data.id = "forkjoin"
    /\ StartEventsOnlyStart(process)
    /\ Len(tokens) = 1
    /\ tokens[1].current_element_id = "split"
    /\ tokens[1].state = ACTIVE
    /\ tokens[1].data = EmptyDict
    /\ element_states = EmptyDict
    /\ last = NoStep

\* the single token of the exclusive split-merge definition is Waiting at the
\* Converging exclusive gateway and the end event has not been executed
ParkedAtMerge ==
    /\ Len(tokens) = 1
    /\ tokens[1].state = WAITING
    /\ tokens[1].current_element_id = "m"
    /\ get_element(process, "m").type = EXCLUSIVE_GATEWAY
    /\ get_element(process, "m").direction = CONVERGING
    /\ "end" \notin DOMAIN element_states

\* C32: on the definition start -> Diverging exclusive gateway -> one of two
\* script tasks -> Converging exclusive gateway with two incoming flows -> end,
\* no token is ever on the end event, and execute() returns with its single
\* token Waiting at the Converging gateway.
ExclusiveMergeParks ==
    /\ [](workflow_data.id = "xormerge" =>
            \A i \in 1..Len(tokens) : tokens[i].current_element_id # "end")
    /\ (workflow_data.id = "xormerge" /\ pc = "start")
          ~> (pc = "done" /\ ParkedAtMerge)

\* C32 witness: execute() has returned on that definition after the branch of
\* the default flow: the token, carrying the branch's output, is Waiting at
\* the Converging exclusive gateway, where one of two incoming flows delivered.
ExclusiveMergeParksWitness ==
    /\ workflow_data.id = "xormerge"
    /\ pc = "done"
    /\ ParkedAtMerge
    /\ IncomingCount("m") = 2
    /\ element_states = [k \in {"b"} |-> "completed"]
    /\ tokens[1].data.output = "False"

\* the ids of the nodes of a join type whose config carries no direction
UndirectedJoinNodes ==
    IF Converted
    THEN { workflow_data.nodes[i].id :
             i \in { j \in 1..Len(workflow_data.nodes) :
                       /\ workflow_data.nodes[j].data.type \in LegacyJoinTypes
                       /\ workflow_data.nodes[j].data.config.direction = NONE } }
    ELSE {}

\* C33: a node of type and_join, xor_join or or_join without a direction is
\* converted to a gateway of direction Diverging; a token stepped at it runs a
\* split, not the join protocol: the step leaves no token Waiting there,
\* changes no other token, and, when nothing raised, leaves an Active token
\* (the stepped one or a child of it) on the target of a flow leaving the node.
LegacyJoinsDiverge ==
    [][ pc' \in {"start", "loop", "pass", "poll", "done"} =>
          \A n \in UndirectedJoinNodes :
              /\ IsGateway(get_element(process', n))
              /\ get_element(process', n).direction = DIVERGING
              /\ \A i \in 1..Len(tokens') :
                   tokens'[i].current_element_id = n => tokens'[i].state # WAITING
              /\ (StepEnds /\ CurElement.id = n) =>
                   /\ last'.op \in {"xor_split", "and_split", "or_split"}
                   /\ \A i \in 1..Len(tokens) :
                        i # CurToken => tokens'[i] = tokens[i]
                   /\ (last'.exc = NONE /\ get_outgoing_flows(process, n) # << >>) =>
                        \E i \in {CurToken} \cup NewTokens :
                            /\ tokens'[i].state = ACTIVE
                            /\ FlowBetween(n, tokens'[i].current_element_id) ]_vars

\* C33 witness: after a parallel split both branch tokens have been stepped
\* at the and_join node, one after the other: each was consumed there and
\* replaced by a child of its own on the end event; none is Waiting.
LegacyJoinsDivergeWitness ==
    /\ workflow_data.id = "legacy_and_join"
    /\ UndirectedJoinNodes = {"j"}
    /\ get_element(process, "j").direction = DIVERGING
    /\ Len(tokens) = 5
    /\ tokens[2].state = COMPLETED /\ tokens[2].current_element_id = "j"
    /\ tokens[3].state = COMPLETED /\ tokens[3].current_element_id = "j"
    /\ tokens[4].parent_token_id = 2 /\ tokens[4].current_element_id = "end"
    /\ tokens[5].parent_token_id = 3 /\ tokens[5].current_element_id = "end"

\* Token i is a child of a parallel split that Failed on a branch element
\* whose flow leads to the Converging gateway g, and g has as many incoming
\* flows as the split has outgoing ones.
FailedBranch(i, g) ==
    LET parent == tokens[i].parent_token_id
        split == get_element(process, tokens[parent].current_element_id)
        gateway == get_element(process, g)
    IN  /\ tokens[i].state = FAILED
        /\ parent # 0
        /\ split.type = PARALLEL_GATEWAY
        /\ split.direction # CONVERGING
        /\ IsGateway(gateway)
        /\ gateway.direction = CONVERGING
        /\ tokens[i].current_element_id # g
        /\ FlowBetween(tokens[i].current_element_id, g)
        /\ IncomingCount(g) = Len(get_outgoing_flows(process, split.id))

\* the Converging gateways a failed branch leads to
StarvedJoins ==
    { g \in ElementIds(process) : \E i \in 1..Len(tokens) : FailedBranch(i, g) }

\* C34: once a child of a parallel split has Failed on its branch, no token
\* leaves the Converging gateway with one incoming flow per branch, and
\* execute() returns with every token that reached the gateway Waiting.
FailedBranchStarvesJoin ==
    /\ [][ \A g \in StarvedJoins :
             \A k \in TokensAt(g) : tokens'[k].current_element_id = g ]_vars
    /\ (StarvedJoins # {})
         ~> (/\ pc = "done"
             /\ \A g \in StarvedJoins :
                  \A k \in TokensAt(g) : tokens[k].state = WAITING)

\* C35: when a token step has finished, and so between the steps, in every
\* pass and when execute() has returned, no element_states entry is
\* "running"; the step of a token at a ServiceTask or ScriptTask ends with
\* that element "completed", "spawned" or "failed".
NoElementLeftRunning ==
    [][ /\ pc' \in {"loop", "pass", "done"} =>
             \A e \in DOMAIN element_states' : element_states'[e] # "running"
        /\ TaskStep =>
             /\ CurElement.id \in DOMAIN element_states'
             /\ element_states'[CurElement.id] \in {"completed", "spawned", "failed"}
        /\ pc' = "poll" => element_states'[CurElement.id] = "running" ]_vars

\* C35 witness: execute() has returned after a waited service task that ran
\* through a poll, a fire-and-forget service task and a failed script task:
\* the three elements are "completed", "spawned" and "failed".
NoElementLeftRunningWitness ==
    /\ pc = "done"
    /\ workflow_data.id = "forksvc"
    /\ {"svc", "sc", "ff"} \subseteq DOMAIN element_states
    /\ element_states["svc"] = "completed"
    /\ element_states["ff"] = "spawned"
    /\ element_states["sc"] = "failed"
    /\ terminals[terminal_mappings["svc"]].queries = 2
    /\ \A e \in DOMAIN element_states : element_states[e] # "running"

\* the elements of a sequence
Range(seq) == { seq[i] : i \in 1..Len(seq) }

\* C36: "/exit" is sent to a worker only by the step of a waited ServiceTask
\* that observed COMPLETED for that worker, so a worker that has received
\* "/exit" has been queried; a wait that ends by timeout, worker ERROR or
\* worker not found sends nothing to the worker and leaves its handle in
\* terminal_mappings under the task's id, where no step removes it (only a
\* later start of the same task records a new handle there).
ExitOnlyOnSuccess ==
    [][ /\ \A tid \in DOMAIN terminals :
             terminals'[tid].inputs # terminals[tid].inputs =>
                 /\ pc = "poll"
                 /\ tid = terminal_id
                 /\ StepEnds
                 /\ last'.exc \notin WaitFailures
                 /\ terminals'[tid].inputs = Append(terminals[tid].inputs, "/exit")
        /\ \A tid \in DOMAIN terminals' :
             "/exit" \in Range(terminals'[tid].inputs) => terminals'[tid].queries >= 1
        /\ \A tid \in DOMAIN terminals' \ DOMAIN terminals :
             "/exit" \notin Range(terminals'[tid].inputs)
        /\ (/\ pc = "poll"
            /\ StepEnds
            /\ last'.exc \in {"timeout", "terminal_error", "terminal_not_found"}) =>
             /\ terminals'[terminal_id].inputs = terminals[terminal_id].inputs
             /\ "/exit" \notin Range(terminals'[terminal_id].inputs)
             /\ terminal_mappings'[CurElement.id] = terminal_id
             /\ tokens'[CurToken].state = FAILED
        /\ \A e \in DOMAIN terminal_mappings :
             /\ e \in DOMAIN terminal_mappings'
             /\ terminal_mappings'[e] # terminal_mappings[e] =>
                  /\ pc = "pass"
                  /\ CurElement.type = SERVICE_TASK
                  /\ CurElement.id = e ]_vars

\* C36 witness: the wait of a ServiceTask has timed out after a poll that
\* found the worker still running: the worker holds the rendered text and no
\* "/exit", and its handle is still recorded for the task.
ExitOnlyOnSuccessWitness ==
    /\ workflow_data.id = "svctwoout"
    /\ last.op = "service_task"
    /\ last.exc = "timeout"
    /\ tokens[last.token].state = FAILED
    /\ "task" \in DOMAIN terminal_mappings
    /\ terminals[terminal_mappings["task"]] = [inputs |-> << "True" >>, queries |-> 1]

\* C37: every call of create_execution_state, update_node_state or
\* cleanup_execution_state leaves the states of the other sessions as they
\* were. After create_execution_state(s, w), get_execution_state(s) is a new
\* state of workflow w with status idle and no node states, replacing any
\* earlier one; after cleanup_execution_state(s) it is nothing;
\* update_node_state on a session with a state sets that node's entry (and
\* its spawned terminal when one is given) and nothing else, and on a session
\* without a state, like cleanup on such a session, changes nothing. So
\* get_execution_state(s) is the state most recently created for s, or nothing
\* if s was cleaned up since or never created.
RegistryLifecycle ==
    [][ LET s == call'.session_name
            before == get_execution_state(execution_states, s)
            after == get_execution_state(execution_states', s)
        IN  /\ \A o \in Sessions \ {s} :
                 get_execution_state(execution_states', o) =
                     get_execution_state(execution_states, o)
            /\ DOMAIN execution_states' \subseteq Sessions
            /\ call'.op = "create_execution_state" =>
                 after = << [workflow_id |-> call'.workflow_id, session_name |-> s,
                             status |-> "idle", current_node_id |-> NONE,
                             node_states |-> EmptyDict,
                             spawned_terminals |-> EmptyDict] >>
            /\ call'.op = "cleanup_execution_state" => after = << >>
            /\ call'.op = "update_node_state" =>
                 IF before = << >> THEN after = << >>
                 ELSE /\ Len(after) = 1
                      /\ after[1].workflow_id = before[1].workflow_id
                      /\ after[1].session_name = s
                      /\ after[1].status = before[1].status
                      /\ after[1].current_node_id = before[1].current_node_id
                      /\ DOMAIN after[1].node_states =
                             DOMAIN before[1].node_states \cup {call'.node_id}
                      /\ after[1].node_states[call'.node_id] =
                             [status |-> call'.status,
                              terminal_id |-> call'.terminal_id,
                              output |-> NONE, error |-> NONE]
                      /\ \A n \in DOMAIN before[1].node_states \ {call'.node_id} :
                             after[1].node_states[n] = before[1].node_states[n]
                      /\ after[1].spawned_terminals =
                             IF call'.terminal_id = NONE
                             THEN before[1].spawned_terminals
                             ELSE DictSet(before[1].spawned_terminals, call'.node_id,
                                          call'.terminal_id) ]_vars

\* C37 witness: session s1 has just been created anew for workflow w2 (its
\* state is idle and empty) while the state of session s2, created for w1 and
\* updated on two nodes, one with a terminal, is still registered.
RegistryLifecycleWitness ==
    /\ call.op = "create_execution_state"
    /\ call.session_name = "s1"
    /\ get_execution_state(execution_states, "s1") =
           << WorkflowExecutionState("w2", "s1") >>
    /\ get_execution_state(execution_states, "s2") # << >>
    /\ execution_states["s2"].workflow_id = "w1"
    /\ DOMAIN execution_states["s2"].node_states = {"n1", "n2"}
    /\ execution_states["s2"].spawned_terminals = [k \in {"n1"} |-> "t1"]

====
